---- MODULE Spec2Model ----
(***************************************************************************)
(* The task lifecycle engine of zealous: the Task entity                   *)
(* (src/src/zealous/models/task.py) and the TaskService that owns the      *)
(* task collection (src/src/zealous/services/task_service.py).             *)
(*                                                                         *)
(* An Optional[x] value is modelled as a sequence: None is <<>> and a      *)
(* present value v is <<v>>.  Instants are integers: a call that reads     *)
(* datetime.utcnow() gets the current instant `now`, and time passes       *)
(* between calls (Tick).  A string is modelled as the sequence of its      *)
(* characters where the code looks inside it (tags).                       *)
(***************************************************************************)
EXTENDS Integers, Sequences, FiniteSets, TLC

VARIABLES
    _tasks,     \* TaskService._tasks: task id -> Task
    _next_id,   \* TaskService._next_id
    now,        \* the instant datetime.utcnow() returns to the next call
    last,       \* the last call: its name, how it ended and what it returned
    created,    \* history: the ids returned by create_task, in call order
    deleted,    \* history: the ids deleted since create_task returned them
    ever_done,  \* history: ids of the tasks whose status has been DONE
    edits,      \* history: number of calls made to edit a task outside its lifecycle
    requests_per_minute,  \* RateLimitMiddleware.requests_per_minute
    _request_counts,      \* RateLimitMiddleware._request_counts: client -> instants
    admitted,   \* history: the instants of the admitted requests of each client
    _users,     \* UserService._users: user id -> User
    _next_user_id         \* UserService._next_id

\* the state of the rate limiter and of the user service
other_vars == <<requests_per_minute, _request_counts, admitted, _users, _next_user_id>>

vars == <<_tasks, _next_id, now, last, created, deleted, ever_done, edits,
          requests_per_minute, _request_counts, admitted, _users, _next_user_id>>

----------------------------------------------------------------------------
(* Bounds of the model *)

\* create_task is called at most MaxTasks times
MaxTasks == 2
\* the clock runs from instant 0 to instant MaxTime
MaxTime == 1
\* among all the operations, at most MaxEdits calls are made to edit a task
\* outside its lifecycle (update_task, the assignment operations, the tag and
\* subtask methods)
MaxEdits == 1
\* among the editing operations alone, at most MaxEditSteps such calls
MaxEditSteps == 2
\* the tag and subtask methods alone are called at most MaxTagCalls times
MaxTagCalls == 4

----------------------------------------------------------------------------
(* Values *)

None == <<>>
Some(v) == <<v>>

Range(s) == {s[i] : i \in DOMAIN s}

TODO == "todo"
IN_PROGRESS == "in_progress"
IN_REVIEW == "in_review"
DONE == "done"
BLOCKED == "blocked"
CANCELLED == "cancelled"

TaskStatus == {TODO, IN_PROGRESS, IN_REVIEW, DONE, BLOCKED, CANCELLED}

CRITICAL == "critical"
HIGH == "high"
MEDIUM == "medium"
LOW == "low"

TaskPriority == {CRITICAL, HIGH, MEDIUM, LOW}

\* a constructor that stamps updated_at
Task_stamped(id, title, description, priority, assignee_id, project_id, t) ==
    [ id              |-> id,
      title           |-> title,
      description     |-> description,
      status          |-> TODO,
      priority        |-> priority,
      assignee_id     |-> assignee_id,
      project_id      |-> project_id,
      parent_task_id  |-> None,
      subtask_ids     |-> <<>>,
      tags            |-> <<>>,
      due_date        |-> None,
      estimated_hours |-> None,
      actual_hours    |-> None,
      created_at      |-> t,
      updated_at      |-> Some(t),
      completed_at    |-> None ]

\* Task(...): the constructor with the field defaults of the model class
Task(id, title, description, priority, assignee_id, project_id, t) ==
    [ id              |-> id,
      title           |-> title,
      description     |-> description,
      status          |-> TODO,
      priority        |-> priority,
      assignee_id     |-> assignee_id,
      project_id      |-> project_id,
      parent_task_id  |-> None,
      subtask_ids     |-> <<>>,
      tags            |-> <<>>,
      due_date        |-> None,
      estimated_hours |-> None,
      actual_hours    |-> None,
      created_at      |-> t,
      updated_at      |-> None,
      completed_at    |-> None ]

\* A float is modelled as the fraction <<numerator, denominator>> in lowest
\* terms with a positive denominator
RECURSIVE Gcd(_, _)
Gcd(a, b) == IF b = 0 THEN a ELSE Gcd(b, a % b)
Abs(x) == IF x < 0 THEN -x ELSE x
Frac(n, d) ==
    LET g == Gcd(Abs(n), Abs(d))
        sgn == IF d < 0 THEN -1 ELSE 1
    IN  <<(sgn * n) \div g, (sgn * d) \div g>>
\* x / y and x * y of floats, x < y, min(x, y)
FracDiv(x, y) == Frac(x[1] * y[2], x[2] * y[1])
FracMul(x, y) == Frac(x[1] * y[1], x[2] * y[2])
FracLess(x, y) == x[1] * y[2] < y[1] * x[2]
FracMin(x, y) == IF FracLess(y, x) THEN y ELSE x

\* what a call leaves for the caller: how it ended ("task", "none", "raised",
\* "true", "false", "dict", "value") and the value returned: the id of the
\* returned task (the stored object itself is returned), the returned dict
Call(op, ret, value) == [op |-> op, ret |-> ret, value |-> value]

\* what a function hands back: a value, or an exception
Returns(v) == [raised |-> FALSE, value |-> v]
Raises == [raised |-> TRUE, value |-> <<>>]

----------------------------------------------------------------------------
(* Task: the state machine *)

\* a state machine in which a DONE task can be reopened
valid_transitions_reopening ==
    [ s \in TaskStatus |->
        CASE s = TODO        -> <<IN_PROGRESS, CANCELLED>>
          [] s = IN_PROGRESS -> <<IN_REVIEW, BLOCKED, CANCELLED>>
          [] s = IN_REVIEW   -> <<DONE, IN_PROGRESS>>
          [] s = BLOCKED     -> <<IN_PROGRESS, CANCELLED>>
          [] s = DONE        -> <<IN_PROGRESS>>
          [] s = CANCELLED   -> <<>> ]

\* a state machine in which review can be skipped
valid_transitions_skipping_review ==
    [ s \in TaskStatus |->
        CASE s = TODO        -> <<IN_PROGRESS, CANCELLED>>
          [] s = IN_PROGRESS -> <<IN_REVIEW, BLOCKED, CANCELLED, DONE>>
          [] s = IN_REVIEW   -> <<DONE, IN_PROGRESS>>
          [] s = BLOCKED     -> <<IN_PROGRESS, CANCELLED>>
          [] s = DONE        -> <<>>
          [] s = CANCELLED   -> <<>> ]

\* a state machine in which a blocked task can only be cancelled
valid_transitions_blocked_only_cancels ==
    [ s \in TaskStatus |->
        CASE s = TODO        -> <<IN_PROGRESS, CANCELLED>>
          [] s = IN_PROGRESS -> <<IN_REVIEW, BLOCKED, CANCELLED>>
          [] s = IN_REVIEW   -> <<DONE, IN_PROGRESS>>
          [] s = BLOCKED     -> <<CANCELLED>>
          [] s = DONE        -> <<>>
          [] s = CANCELLED   -> <<>> ]

valid_transitions ==
    [ s \in TaskStatus |->
        CASE s = TODO        -> <<IN_PROGRESS, CANCELLED>>
          [] s = IN_PROGRESS -> <<IN_REVIEW, BLOCKED, CANCELLED>>
          [] s = IN_REVIEW   -> <<DONE, IN_PROGRESS>>
          [] s = BLOCKED     -> <<IN_PROGRESS, CANCELLED>>
          [] s = DONE        -> <<>>
          [] s = CANCELLED   -> <<>> ]

can_transition_to(task, new_status) ==
    new_status \in Range(valid_transitions[task.status])

\* transition_to stamping completed_at on every transition
transition_to_always_completes(task, new_status, t) ==
    IF ~can_transition_to(task, new_status)
    THEN [raised |-> TRUE, task |-> task]
    ELSE [raised |-> FALSE,
          task   |-> [task EXCEPT !.status = new_status,
                                  !.updated_at = Some(t),
                                  !.completed_at = Some(t)]]

\* transition_to stamping updated_at before it validates
transition_to_stamping_failure(task, new_status, t) ==
    IF ~can_transition_to(task, new_status)
    THEN [raised |-> TRUE, task |-> [task EXCEPT !.updated_at = Some(t)]]
    ELSE [raised |-> FALSE,
          task   |-> [task EXCEPT !.status = new_status,
                                  !.updated_at = Some(t),
                                  !.completed_at =
                                      IF new_status = DONE THEN Some(t) ELSE @]]

\* transition_to forgetting completed_at
transition_to_without_completed_at(task, new_status, t) ==
    IF ~can_transition_to(task, new_status)
    THEN [raised |-> TRUE, task |-> task]
    ELSE [raised |-> FALSE,
          task   |-> [task EXCEPT !.status = new_status, !.updated_at = Some(t)]]

\* Task.transition_to: the task afterwards and whether ValueError was raised
\* (the two reads of the clock, for updated_at and completed_at, fall in the
\* same instant t)
transition_to(task, new_status, t) ==
    IF ~can_transition_to(task, new_status)
    THEN [raised |-> TRUE, task |-> task]
    ELSE [raised |-> FALSE,
          task   |-> [task EXCEPT !.status = new_status,
                                  !.updated_at = Some(t),
                                  !.completed_at =
                                      IF new_status = DONE THEN Some(t) ELSE @]]

\* str.lower(), character by character
lower(s) == [i \in DOMAIN s |-> IF s[i] = "X" THEN "x" ELSE IF s[i] = "Y" THEN "y" ELSE s[i]]

\* str.strip(): leading and trailing whitespace removed
RECURSIVE strip(_)
strip(s) ==
    IF s = <<>> THEN s
    ELSE IF Head(s) = " " THEN strip(Tail(s))
    ELSE IF s[Len(s)] = " " THEN strip(SubSeq(s, 1, Len(s) - 1))
    ELSE s

\* list.remove(x): the first occurrence of x removed
RECURSIVE list_remove(_, _)
list_remove(l, x) ==
    IF l = <<>> THEN l
    ELSE IF Head(l) = x THEN Tail(l)
    ELSE <<Head(l)>> \o list_remove(Tail(l), x)

add_subtask(task, subtask_id, t) ==
    IF subtask_id \notin Range(task.subtask_ids)
    THEN [task EXCEPT !.subtask_ids = Append(@, subtask_id), !.updated_at = Some(t)]
    ELSE task

\* remove_subtask stamping updated_at also when the id is not there
remove_subtask_always_stamping(task, subtask_id, t) ==
    IF subtask_id \in Range(task.subtask_ids)
    THEN [task EXCEPT !.subtask_ids = list_remove(@, subtask_id), !.updated_at = Some(t)]
    ELSE [task EXCEPT !.updated_at = Some(t)]

remove_subtask(task, subtask_id, t) ==
    IF subtask_id \in Range(task.subtask_ids)
    THEN [task EXCEPT !.subtask_ids = list_remove(@, subtask_id), !.updated_at = Some(t)]
    ELSE task

\* add_tag looking for the tag as given, and storing it normalized
add_tag_comparing_as_given(task, tag, t) ==
    LET tg == strip(lower(tag))
    IN  IF tg # <<>> /\ tag \notin Range(task.tags)
        THEN [task EXCEPT !.tags = Append(@, tg), !.updated_at = Some(t)]
        ELSE task

add_tag(task, tag, t) ==
    LET tg == strip(lower(tag))
    IN  IF tg # <<>> /\ tg \notin Range(task.tags)
        THEN [task EXCEPT !.tags = Append(@, tg), !.updated_at = Some(t)]
        ELSE task

\* remove_tag stamping updated_at also when the tag is not there
remove_tag_always_stamping(task, tag, t) ==
    LET tg == strip(lower(tag))
    IN  IF tg \in Range(task.tags)
        THEN [task EXCEPT !.tags = list_remove(@, tg), !.updated_at = Some(t)]
        ELSE [task EXCEPT !.updated_at = Some(t)]

remove_tag(task, tag, t) ==
    LET tg == strip(lower(tag))
    IN  IF tg \in Range(task.tags)
        THEN [task EXCEPT !.tags = list_remove(@, tg), !.updated_at = Some(t)]
        ELSE task

\* is_overdue counting a DONE task with a past due date
is_overdue_also_when_done(task, t) ==
    IF task.due_date = None THEN FALSE
    ELSE t > task.due_date[1]

\* is_overdue at instant t
is_overdue(task, t) ==
    IF task.due_date = None THEN FALSE
    ELSE IF task.status = DONE THEN FALSE
    ELSE t > task.due_date[1]

is_completed(task) == task.status = DONE

\* the datetime returned is the instant of the call plus a number of hours
estimate_completion_date(task, t) ==
    IF task.estimated_hours = None THEN None
    ELSE IF task.actual_hours = None
    THEN Some([instant |-> t, hours |-> task.estimated_hours[1]])
    ELSE LET remaining == IF task.estimated_hours[1] - task.actual_hours[1] > 0
                          THEN task.estimated_hours[1] - task.actual_hours[1]
                          ELSE 0
         IN  Some([instant |-> t, hours |-> remaining])

is_blocked(task) == task.status = BLOCKED

\* calculate_progress looking at the hours before it looks at the status
calculate_progress_by_hours_first(task) ==
    IF task.estimated_hours # None /\ task.actual_hours # None
    THEN IF task.estimated_hours[1] = 0 THEN Raises
         ELSE Returns(FracMin(<<99, 1>>,
                              FracMul(Frac(task.actual_hours[1], task.estimated_hours[1]),
                                      <<100, 1>>)))
    ELSE IF task.status = DONE THEN Returns(<<100, 1>>)
    ELSE IF task.status = TODO THEN Returns(<<0, 1>>)
    ELSE Returns(IF task.status = IN_PROGRESS THEN <<25, 1>>
                 ELSE IF task.status = IN_REVIEW THEN <<75, 1>>
                 ELSE IF task.status = BLOCKED THEN <<50, 1>>
                 ELSE <<0, 1>>)

\* calculate_progress: the division actual_hours / estimated_hours raises
\* ZeroDivisionError when estimated_hours is 0
calculate_progress(task) ==
    IF task.status = DONE THEN Returns(<<100, 1>>)
    ELSE IF task.status = TODO THEN Returns(<<0, 1>>)
    ELSE IF task.estimated_hours = None \/ task.actual_hours = None
    THEN Returns(IF task.status = IN_PROGRESS THEN <<25, 1>>
                 ELSE IF task.status = IN_REVIEW THEN <<75, 1>>
                 ELSE IF task.status = BLOCKED THEN <<50, 1>>
                 ELSE <<0, 1>>)
    ELSE IF task.estimated_hours[1] = 0 THEN Raises
    ELSE Returns(FracMin(<<99, 1>>,
                         FracMul(Frac(task.actual_hours[1], task.estimated_hours[1]),
                                 <<100, 1>>)))

----------------------------------------------------------------------------
(* TaskService: helpers *)

\* dict[k] = v
Put(d, k, v) == [x \in DOMAIN d \cup {k} |-> IF x = k THEN v ELSE d[x]]

\* dict.get(k, default)
Get(d, k, default) == IF k \in DOMAIN d THEN d[k] ELSE default

\* the truth value Python gives an Optional[int]: None and 0 are false
Truthy(o) == o # None /\ o[1] # 0

\* the keys of the task dict in iteration order (insertion order; ids are
\* inserted in increasing order and never inserted twice)
RECURSIVE Ordered(_)
Ordered(S) ==
    IF S = {} THEN <<>>
    ELSE LET m == CHOOSE x \in S : \A y \in S : x <= y
         IN  <<m>> \o Ordered(S \ {m})

\* seq[start : stop] of Python: a negative index counts from the end, and
\* both are clamped to the length
Clamp(n, x) == IF x < 0 THEN (IF n + x < 0 THEN 0 ELSE n + x) ELSE (IF x > n THEN n ELSE x)
Slice(seq, start, stop) ==
    LET lo == Clamp(Len(seq), start)
        hi == Clamp(Len(seq), stop)
    IN  IF lo < hi THEN SubSeq(seq, lo + 1, hi) ELSE <<>>

\* list_tasks cutting the page out of all the tasks before it filters
list_tasks_paging_first(ts, status, priority, assignee_id, project_id, limit, offset) ==
    LET by_status(i) == ts[i].status = status[1]
        by_priority(i) == ts[i].priority = priority[1]
        by_assignee(i) == ts[i].assignee_id = assignee_id
        by_project(i) == ts[i].project_id = project_id
        tasks0 == Slice(Ordered(DOMAIN ts), offset, offset + limit)
        tasks1 == IF status # None THEN SelectSeq(tasks0, by_status) ELSE tasks0
        tasks2 == IF priority # None THEN SelectSeq(tasks1, by_priority) ELSE tasks1
        tasks3 == IF assignee_id # None THEN SelectSeq(tasks2, by_assignee) ELSE tasks2
    IN  IF project_id # None THEN SelectSeq(tasks3, by_project) ELSE tasks3

\* list_tasks: the ids of the tasks returned, in the order returned; a filter
\* that is None is not applied
list_tasks(ts, status, priority, assignee_id, project_id, limit, offset) ==
    LET by_status(i) == ts[i].status = status[1]
        by_priority(i) == ts[i].priority = priority[1]
        by_assignee(i) == ts[i].assignee_id = assignee_id
        by_project(i) == ts[i].project_id = project_id
        tasks0 == Ordered(DOMAIN ts)
        tasks1 == IF status # None THEN SelectSeq(tasks0, by_status) ELSE tasks0
        tasks2 == IF priority # None THEN SelectSeq(tasks1, by_priority) ELSE tasks1
        tasks3 == IF assignee_id # None THEN SelectSeq(tasks2, by_assignee) ELSE tasks2
        tasks4 == IF project_id # None THEN SelectSeq(tasks3, by_project) ELSE tasks3
    IN  Slice(tasks4, offset, offset + limit)

\* the overdue, the blocked and the tagged tasks, in the order of the dict;
\* the ids stand for the task objects returned
get_overdue_tasks(ts, t) ==
    LET overdue(i) == is_overdue(ts[i], t)
    IN  SelectSeq(Ordered(DOMAIN ts), overdue)

get_blocked_tasks(ts) ==
    LET blocked(i) == is_blocked(ts[i])
    IN  SelectSeq(Ordered(DOMAIN ts), blocked)

\* get_tasks_by_tag looking for the tag as given
get_tasks_by_tag_as_given(ts, tag) ==
    LET tagged(i) == tag \in Range(ts[i].tags)
    IN  SelectSeq(Ordered(DOMAIN ts), tagged)

get_tasks_by_tag(ts, tag) ==
    LET tg == strip(lower(tag))
        tagged(i) == tg \in Range(ts[i].tags)
    IN  SelectSeq(Ordered(DOMAIN ts), tagged)

\* calculate_velocity counting every completed task, whenever it was completed
calculate_velocity_of_all_time(ts, days, t) ==
    LET completed == Cardinality({i \in DOMAIN ts : ts[i].completed_at # None})
        weeks == Frac(days, 7)
    IN  IF weeks[1] = 0 THEN Raises
        ELSE Returns(FracDiv(Frac(completed, 1), weeks))

\* calculate_velocity at instant t, instants counted in days: a datetime is
\* always true, so every completed_at that is set is compared with the
\* cutoff; the division by days / 7 raises ZeroDivisionError for days = 0
calculate_velocity(ts, days, t) ==
    LET cutoff == t - days
        completed == Cardinality({i \in DOMAIN ts : /\ ts[i].completed_at # None
                                                    /\ ts[i].completed_at[1] > cutoff})
        weeks == Frac(days, 7)
    IN  IF weeks[1] = 0 THEN Raises
        ELSE Returns(FracDiv(Frac(completed, 1), weeks))

\* the history of DONE is extended by the tasks that are DONE after the step
History == ever_done' = ever_done \cup {i \in DOMAIN _tasks' : _tasks'[i].status = DONE}

get_task(ts, task_id) == IF task_id \in DOMAIN ts THEN Some(ts[task_id]) ELSE None

\* allow-lists that let update_task reach a field of the lifecycle
allowed_fields_with_status ==
    {"title", "description", "priority", "assignee_id", "due_date", "estimated_hours",
     "status"}

allowed_fields_with_completed_at ==
    {"title", "description", "priority", "assignee_id", "due_date", "estimated_hours",
     "completed_at"}

allowed_fields_with_id ==
    {"title", "description", "priority", "assignee_id", "due_date", "estimated_hours",
     "id"}

allowed_fields ==
    {"title", "description", "priority", "assignee_id", "due_date", "estimated_hours"}

\* update_task setting every name of kwargs that the task has
set_fields_any_attribute(task, kwargs) ==
    [f \in DOMAIN task |-> IF f \in DOMAIN kwargs THEN kwargs[f] ELSE task[f]]

\* the loop of update_task: setattr for each allowed name of kwargs
set_fields(task, kwargs) ==
    [f \in DOMAIN task |->
        IF f \in DOMAIN kwargs /\ f \in allowed_fields THEN kwargs[f] ELSE task[f]]

get_workload_distribution(ts) ==
    LET active(a) == {i \in DOMAIN ts : /\ Truthy(ts[i].assignee_id)
                                        /\ ts[i].assignee_id[1] = a
                                        /\ ts[i].status \notin {DONE, CANCELLED}}
        keys == {ts[i].assignee_id[1] : i \in {j \in DOMAIN ts : Truthy(ts[j].assignee_id)
                                                  /\ ts[j].status \notin {DONE, CANCELLED}}}
    IN  [a \in keys |-> Cardinality(active(a))]

\* the loop of auto_assign_task taking a member whose load is not higher
\* than the lowest so far
RECURSIVE least_loaded_or_equal(_, _, _, _, _)
least_loaded_or_equal(workload, team_member_ids, k, min_load, assignee) ==
    IF k > Len(team_member_ids) THEN assignee
    ELSE LET member_id == team_member_ids[k]
             load == Get(workload, member_id, 0)
         IN  IF min_load = None \/ load <= min_load[1]
             THEN least_loaded_or_equal(workload, team_member_ids, k + 1, Some(load), member_id)
             ELSE least_loaded_or_equal(workload, team_member_ids, k + 1, min_load, assignee)

\* the loop of auto_assign_task over team_member_ids[k..]: min_load is None
\* for float("inf")
RECURSIVE least_loaded(_, _, _, _, _)
least_loaded(workload, team_member_ids, k, min_load, assignee) ==
    IF k > Len(team_member_ids) THEN assignee
    ELSE LET member_id == team_member_ids[k]
             load == Get(workload, member_id, 0)
         IN  IF min_load = None \/ load < min_load[1]
             THEN least_loaded(workload, team_member_ids, k + 1, Some(load), member_id)
             ELSE least_loaded(workload, team_member_ids, k + 1, min_load, assignee)

\* the loop of bulk_assign over task_ids
RECURSIVE bulk_assign_loop(_, _, _, _, _)
bulk_assign_loop(ts, results, task_ids, assignee_id, t) ==
    IF task_ids = <<>> THEN [tasks |-> ts, results |-> results]
    ELSE LET task_id == Head(task_ids)
         IN  IF get_task(ts, task_id) # None
             THEN bulk_assign_loop(
                      [ts EXCEPT ![task_id].assignee_id = Some(assignee_id),
                                 ![task_id].updated_at = Some(t)],
                      Put(results, task_id, TRUE), Tail(task_ids), assignee_id, t)
             ELSE bulk_assign_loop(ts, Put(results, task_id, FALSE),
                                   Tail(task_ids), assignee_id, t)

\* bulk_transition calling transition_to on every stored task, without asking
\* can_transition_to first
RECURSIVE bulk_transition_loop_unguarded(_, _, _, _, _)
bulk_transition_loop_unguarded(ts, results, task_ids, new_status, t) ==
    IF task_ids = <<>> THEN [tasks |-> ts, results |-> results, raised |-> FALSE]
    ELSE LET task_id == Head(task_ids)
         IN  IF get_task(ts, task_id) # None
             THEN LET r == transition_to(ts[task_id], new_status, t)
                  IN  IF r.raised
                      THEN [tasks |-> [ts EXCEPT ![task_id] = r.task],
                            results |-> results, raised |-> TRUE]
                      ELSE bulk_transition_loop_unguarded(
                               [ts EXCEPT ![task_id] = r.task],
                               Put(results, task_id, TRUE), Tail(task_ids), new_status, t)
             ELSE bulk_transition_loop_unguarded(ts, Put(results, task_id, FALSE),
                                                 Tail(task_ids), new_status, t)

\* the loop of bulk_transition over task_ids; a ValueError of transition_to
\* would end the loop and reach the caller
RECURSIVE bulk_transition_loop(_, _, _, _, _)
bulk_transition_loop(ts, results, task_ids, new_status, t) ==
    IF task_ids = <<>> THEN [tasks |-> ts, results |-> results, raised |-> FALSE]
    ELSE LET task_id == Head(task_ids)
         IN  IF get_task(ts, task_id) # None /\ can_transition_to(ts[task_id], new_status)
             THEN LET r == transition_to(ts[task_id], new_status, t)
                  IN  IF r.raised
                      THEN [tasks |-> [ts EXCEPT ![task_id] = r.task],
                            results |-> results, raised |-> TRUE]
                      ELSE bulk_transition_loop(
                               [ts EXCEPT ![task_id] = r.task],
                               Put(results, task_id, TRUE), Tail(task_ids), new_status, t)
             ELSE bulk_transition_loop(ts, Put(results, task_id, FALSE),
                                       Tail(task_ids), new_status, t)

\* get_task_stats counting the statuses and the overdue tasks of every task,
\* whatever its project
get_task_stats_unfiltered_breakdown(ts, project_id, t) ==
    LET tasks == IF project_id # None
                 THEN {i \in DOMAIN ts : ts[i].project_id = project_id}
                 ELSE DOMAIN ts
    IN  [k \in {"total", "overdue"} \cup TaskStatus |->
            IF k = "total" THEN Cardinality(tasks)
            ELSE IF k = "overdue" THEN Cardinality({i \in DOMAIN ts : is_overdue(ts[i], t)})
            ELSE Cardinality({i \in DOMAIN ts : ts[i].status = k})]

\* get_task_stats at instant t: total is the length of the filtered list,
\* the other counts come from the loop that skips the tasks of other projects
get_task_stats(ts, project_id, t) ==
    LET tasks == IF project_id # None
                 THEN {i \in DOMAIN ts : ts[i].project_id = project_id}
                 ELSE DOMAIN ts
        counted == {i \in DOMAIN ts :
                       ~(project_id # None /\ ts[i].project_id # project_id)}
    IN  [k \in {"total", "overdue"} \cup TaskStatus |->
            IF k = "total" THEN Cardinality(tasks)
            ELSE IF k = "overdue" THEN Cardinality({i \in counted : is_overdue(ts[i], t)})
            ELSE Cardinality({i \in counted : ts[i].status = k})]

----------------------------------------------------------------------------
(* TaskService: the calls *)

\* The clients of the rate limiter.  _request_counts is a defaultdict(list):
\* a client without an entry is a client with the empty list
Clients == {"a", "b"}

\* RateLimitMiddleware(requests_per_minute), and UserService()
RateLimitMiddleware_init(rpm) ==
    /\ requests_per_minute = rpm
    /\ _request_counts = [c \in Clients |-> <<>>]
    /\ admitted = [c \in Clients |-> <<>>]

UserService_init ==
    /\ _users = <<>>
    /\ _next_user_id = 1

Init ==
    /\ _tasks = <<>>
    /\ _next_id = 1
    /\ now = 0
    /\ last = Call("__init__", "none", <<>>)
    /\ created = <<>>
    /\ deleted = {}
    /\ ever_done = {}
    /\ edits = 0
    /\ RateLimitMiddleware_init(60)
    /\ UserService_init

\* an argument of a call: the value passed, or the default of the signature
Arg(kwargs, name, default) == IF name \in DOMAIN kwargs THEN kwargs[name] ELSE default

\* create_task(title, **kwargs): description, priority, assignee_id and
\* project_id are optional
create_task(title, kwargs) ==
    /\ Len(created) < MaxTasks
    /\ LET task == Task(_next_id, title,
                        Arg(kwargs, "description", None),
                        Arg(kwargs, "priority", MEDIUM),
                        Arg(kwargs, "assignee_id", None),
                        Arg(kwargs, "project_id", None),
                        now)
       IN  _tasks' = Put(_tasks, _next_id, task)
    /\ _next_id' = _next_id + 1
    /\ last' = Call("create_task", "task", _next_id)
    /\ created' = Append(created, _next_id)
    /\ deleted' = deleted \ {_next_id}
    /\ History
    /\ UNCHANGED <<now, other_vars, edits>>

\* a call that finds no task: None is returned and nothing is touched
Miss(op) ==
    /\ last' = Call(op, "none", <<>>)
    /\ UNCHANGED <<_tasks, _next_id, now, other_vars, created, deleted, ever_done, edits>>

\* a call that leaves `task` as the stored task task_id and returns it
Store(op, task_id, task) ==
    /\ _tasks' = [_tasks EXCEPT ![task_id] = task]
    /\ last' = Call(op, "task", task_id)
    /\ History
    /\ UNCHANGED <<_next_id, now, other_vars, created, deleted>>

\* update_task stamping updated_at only when it has set a field
update_task_stamping_on_change(task_id, kwargs) ==
    IF get_task(_tasks, task_id) = None
    THEN Miss("update_task")
    ELSE /\ edits' = edits + 1
         /\ Store("update_task", task_id,
                  IF DOMAIN kwargs \cap allowed_fields = {}
                  THEN _tasks[task_id]
                  ELSE [set_fields(_tasks[task_id], kwargs) EXCEPT !.updated_at = Some(now)])

update_task(task_id, kwargs) ==
    IF get_task(_tasks, task_id) = None
    THEN Miss("update_task")
    ELSE /\ edits' = edits + 1
         /\ Store("update_task", task_id,
                  [set_fields(_tasks[task_id], kwargs) EXCEPT !.updated_at = Some(now)])

\* delete_task handing the freed id back to the counter
delete_task_reusing_ids(task_id) ==
    /\ IF task_id \in DOMAIN _tasks
       THEN /\ _tasks' = [i \in DOMAIN _tasks \ {task_id} |-> _tasks[i]]
            /\ _next_id' = task_id
            /\ last' = Call("delete_task", "true", <<>>)
       ELSE /\ last' = Call("delete_task", "false", <<>>)
            /\ UNCHANGED <<_tasks, _next_id>>
    /\ deleted' = IF task_id \in DOMAIN _tasks THEN deleted \cup {task_id} ELSE deleted
    /\ UNCHANGED <<now, other_vars, created, ever_done, edits>>

\* delete_task reporting the deletion of a stored task without removing it
delete_task_leaving_task(task_id) ==
    /\ last' = Call("delete_task", IF task_id \in DOMAIN _tasks THEN "true" ELSE "false", <<>>)
    /\ deleted' = IF task_id \in DOMAIN _tasks THEN deleted \cup {task_id} ELSE deleted
    /\ UNCHANGED <<_tasks, _next_id, now, other_vars, created, ever_done, edits>>

\* delete_task taking the deleted id out of the other tasks' subtask_ids
delete_task_cascading(task_id) ==
    /\ IF task_id \in DOMAIN _tasks
       THEN /\ _tasks' = [i \in DOMAIN _tasks \ {task_id} |->
                            [_tasks[i] EXCEPT !.subtask_ids = list_remove(@, task_id)]]
            /\ last' = Call("delete_task", "true", <<>>)
       ELSE /\ last' = Call("delete_task", "false", <<>>)
            /\ UNCHANGED _tasks
    /\ deleted' = IF task_id \in DOMAIN _tasks THEN deleted \cup {task_id} ELSE deleted
    /\ UNCHANGED <<_next_id, now, other_vars, created, ever_done, edits>>

delete_task(task_id) ==
    /\ IF task_id \in DOMAIN _tasks
       THEN /\ _tasks' = [i \in DOMAIN _tasks \ {task_id} |-> _tasks[i]]
            /\ last' = Call("delete_task", "true", <<>>)
       ELSE /\ last' = Call("delete_task", "false", <<>>)
            /\ UNCHANGED _tasks
    /\ deleted' = IF task_id \in DOMAIN _tasks THEN deleted \cup {task_id} ELSE deleted
    /\ UNCHANGED <<_next_id, now, other_vars, created, ever_done, edits>>

\* assign_task refusing a task that is DONE or CANCELLED
assign_task_active_only(task_id, assignee_id) ==
    IF get_task(_tasks, task_id) = None
    THEN Miss("assign_task")
    ELSE /\ edits' = edits + 1
         /\ Store("assign_task", task_id,
                  IF _tasks[task_id].status \in {DONE, CANCELLED}
                  THEN _tasks[task_id]
                  ELSE [_tasks[task_id] EXCEPT !.assignee_id = Some(assignee_id),
                                               !.updated_at = Some(now)])

assign_task(task_id, assignee_id) ==
    IF get_task(_tasks, task_id) = None
    THEN Miss("assign_task")
    ELSE /\ edits' = edits + 1
         /\ Store("assign_task", task_id,
                  [_tasks[task_id] EXCEPT !.assignee_id = Some(assignee_id),
                                          !.updated_at = Some(now)])

unassign_task(task_id) ==
    IF get_task(_tasks, task_id) = None
    THEN Miss("unassign_task")
    ELSE /\ edits' = edits + 1
         /\ Store("unassign_task", task_id,
                  [_tasks[task_id] EXCEPT !.assignee_id = None,
                                          !.updated_at = Some(now)])

\* transition_task catching the ValueError and returning None
transition_task_swallowing(task_id, new_status) ==
    IF get_task(_tasks, task_id) = None
    THEN Miss("transition_task")
    ELSE LET r == transition_to(_tasks[task_id], new_status, now)
         IN  /\ _tasks' = [_tasks EXCEPT ![task_id] = r.task]
             /\ last' = IF r.raised
                        THEN Call("transition_task", "none", <<>>)
                        ELSE Call("transition_task", "task", task_id)
             /\ History
             /\ UNCHANGED <<_next_id, now, other_vars, created, deleted, edits>>

transition_task(task_id, new_status) ==
    IF get_task(_tasks, task_id) = None
    THEN Miss("transition_task")
    ELSE LET r == transition_to(_tasks[task_id], new_status, now)
         IN  /\ _tasks' = [_tasks EXCEPT ![task_id] = r.task]
             /\ last' = IF r.raised
                        THEN Call("transition_task", "raised", <<>>)
                        ELSE Call("transition_task", "task", task_id)
             /\ History
             /\ UNCHANGED <<_next_id, now, other_vars, created, deleted, edits>>

\* bulk_assign undoing its assignments when an id of the list is missing
bulk_assign_with_rollback(task_ids, assignee_id) ==
    LET r == bulk_assign_loop(_tasks, <<>>, task_ids, assignee_id, now)
    IN  /\ edits' = edits + 1
        /\ _tasks' = IF \E i \in DOMAIN r.results : ~r.results[i]
                     THEN _tasks ELSE r.tasks
        /\ last' = Call("bulk_assign", "dict", r.results)
        /\ History
        /\ UNCHANGED <<_next_id, now, other_vars, created, deleted>>

bulk_assign(task_ids, assignee_id) ==
    LET r == bulk_assign_loop(_tasks, <<>>, task_ids, assignee_id, now)
    IN  /\ edits' = edits + 1
        /\ _tasks' = r.tasks
        /\ last' = Call("bulk_assign", "dict", r.results)
        /\ History
        /\ UNCHANGED <<_next_id, now, other_vars, created, deleted>>

bulk_transition(task_ids, new_status) ==
    LET r == bulk_transition_loop(_tasks, <<>>, task_ids, new_status, now)
    IN  /\ _tasks' = r.tasks
        /\ last' = IF r.raised
                   THEN Call("bulk_transition", "raised", <<>>)
                   ELSE Call("bulk_transition", "dict", r.results)
        /\ History
        /\ UNCHANGED <<_next_id, now, other_vars, created, deleted, edits>>

\* auto_assign_task looking the task up first and, with no team member to
\* choose from, leaving the task without assignee
auto_assign_task_unassigning_on_empty(task_id, team_member_ids) ==
    IF get_task(_tasks, task_id) = None
    THEN Miss("auto_assign_task")
    ELSE /\ edits' = edits + 1
         /\ Store("auto_assign_task", task_id,
                  [_tasks[task_id] EXCEPT
                      !.assignee_id =
                          IF team_member_ids = <<>> THEN None
                          ELSE Some(least_loaded(get_workload_distribution(_tasks),
                                                 team_member_ids, 1, None,
                                                 team_member_ids[1])),
                      !.updated_at = Some(now)])

auto_assign_task(task_id, team_member_ids) ==
    IF team_member_ids = <<>> \/ get_task(_tasks, task_id) = None
    THEN Miss("auto_assign_task")
    ELSE LET workload == get_workload_distribution(_tasks)
             assignee == least_loaded(workload, team_member_ids, 1, None,
                                      team_member_ids[1])
         IN  /\ edits' = edits + 1
             /\ Store("auto_assign_task", task_id,
                      [_tasks[task_id] EXCEPT !.assignee_id = Some(assignee),
                                              !.updated_at = Some(now)])

\* a query that notes the access in updated_at of every stored task
Query_touching(op, value) ==
    /\ last' = Call(op, "value", value)
    /\ _tasks' = [i \in DOMAIN _tasks |-> [_tasks[i] EXCEPT !.updated_at = Some(now)]]
    /\ UNCHANGED <<_next_id, now, other_vars, created, deleted, ever_done, edits>>

\* the queries: they return and touch nothing
Query(op, value) ==
    /\ last' = Call(op, "value", value)
    /\ UNCHANGED <<_tasks, _next_id, now, other_vars, created, deleted, ever_done, edits>>

\* a query that may raise: it returns or raises, and touches nothing
Answer(op, r) ==
    /\ last' = IF r.raised THEN Call(op, "raised", <<>>) ELSE Call(op, "value", r.value)
    /\ UNCHANGED <<_tasks, _next_id, now, other_vars, created, deleted, ever_done, edits>>

----------------------------------------------------------------------------
(* The methods of Task called on a stored task (create_task and get_task   *)
(* hand out the stored object itself)                                      *)

Task_transition_to(task_id, new_status) ==
    LET r == transition_to(_tasks[task_id], new_status, now)
    IN  /\ task_id \in DOMAIN _tasks
        /\ _tasks' = [_tasks EXCEPT ![task_id] = r.task]
        /\ last' = Call("transition_to", IF r.raised THEN "raised" ELSE "none", <<>>)
        /\ History
        /\ UNCHANGED <<_next_id, now, other_vars, created, deleted, edits>>

\* a Task method that returns None and leaves `task` as the stored task
Method(op, task_id, task) ==
    /\ edits' = edits + 1
    /\ _tasks' = [_tasks EXCEPT ![task_id] = task]
    /\ last' = Call(op, "none", <<>>)
    /\ History
    /\ UNCHANGED <<_next_id, now, other_vars, created, deleted>>

Task_add_tag(task_id, tag) ==
    /\ task_id \in DOMAIN _tasks
    /\ Method("add_tag", task_id, add_tag(_tasks[task_id], tag, now))

Task_remove_tag(task_id, tag) ==
    /\ task_id \in DOMAIN _tasks
    /\ Method("remove_tag", task_id, remove_tag(_tasks[task_id], tag, now))

Task_add_subtask(task_id, subtask_id) ==
    /\ task_id \in DOMAIN _tasks
    /\ Method("add_subtask", task_id, add_subtask(_tasks[task_id], subtask_id, now))

Task_remove_subtask(task_id, subtask_id) ==
    /\ task_id \in DOMAIN _tasks
    /\ Method("remove_subtask", task_id, remove_subtask(_tasks[task_id], subtask_id, now))

\* time passes between two calls
Tick ==
    /\ now < MaxTime
    /\ now' = now + 1
    /\ last' = Call("tick", "none", <<>>)
    /\ UNCHANGED <<_tasks, _next_id, created, deleted, ever_done, edits, other_vars>>

----------------------------------------------------------------------------
(* The arguments the calls are made with *)

TaskIds == 1..MaxTasks
UserIds == {1, 2}
TeamLists == {<<>>, <<1, 2>>, <<2, 1>>}
IdLists == {<<>>, <<1, 1>>, <<2, 1>>}
Tags == {<<"X">>, <<" ">>}
CreateArgs ==
    { <<>>,
      [description |-> Some("d"), priority |-> HIGH,
       assignee_id |-> Some(1), project_id |-> Some(1)] }
Kwargs ==
    { <<>>,
      [title |-> "U", priority |-> LOW, assignee_id |-> Some(2), status |-> CANCELLED],
      [status |-> DONE, id |-> 9, completed_at |-> Some(0), tags |-> <<"t">>,
       project_id |-> Some(7), parent_task_id |-> Some(7), subtask_ids |-> <<7>>,
       actual_hours |-> Some(7), created_at |-> 7, updated_at |-> None],
      [description |-> Some("e"), due_date |-> Some(0), estimated_hours |-> Some(8)] }

Create == \E a \in CreateArgs : create_task("T", a)
CreateDefault == create_task("T", <<>>)
Update == \E i \in TaskIds, kw \in Kwargs : edits < MaxEdits /\ update_task(i, kw)
Delete == \E i \in TaskIds : delete_task(i)
Assign == \E i \in TaskIds, a \in UserIds : edits < MaxEdits /\ assign_task(i, a)
Unassign == \E i \in TaskIds : edits < MaxEdits /\ unassign_task(i)
Transition == \E i \in TaskIds, s \in TaskStatus : transition_task(i, s)
BulkAssign == \E l \in IdLists, a \in UserIds : edits < MaxEdits /\ bulk_assign(l, a)
BulkTransition == \E l \in IdLists, s \in TaskStatus : bulk_transition(l, s)
AutoAssign == \E i \in TaskIds, l \in TeamLists : edits < MaxEdits /\ auto_assign_task(i, l)
GetTask == \E i \in TaskIds : Query("get_task", get_task(_tasks, i))
TaskTransitionTo == \E i \in TaskIds, s \in TaskStatus : Task_transition_to(i, s)
AddTag == \E i \in TaskIds, g \in Tags : edits < MaxEdits /\ Task_add_tag(i, g)
RemoveTag == \E i \in TaskIds, g \in Tags : edits < MaxEdits /\ Task_remove_tag(i, g)
AddSubtask == \E i \in TaskIds, j \in TaskIds : edits < MaxEdits /\ Task_add_subtask(i, j)
RemoveSubtask == \E i \in TaskIds, j \in TaskIds : edits < MaxEdits /\ Task_remove_subtask(i, j)

\* Every operation of the directory and of its tasks, on tasks created with
\* the defaults
Next ==
    \/ CreateDefault \/ Update \/ Delete \/ Assign \/ Unassign \/ Transition
    \/ BulkAssign \/ BulkTransition \/ AutoAssign \/ GetTask
    \/ TaskTransitionTo \/ AddTag \/ RemoveTag \/ AddSubtask \/ RemoveSubtask
    \/ Tick

Spec == Init /\ [][Next]_vars

\* The lifecycle alone, at one instant: creation with and without the
\* optional arguments, deletion, lookup and the single transitions
NextLifecycle ==
    \/ Create \/ Delete \/ Transition \/ GetTask \/ TaskTransitionTo

SpecLifecycle == Init /\ [][NextLifecycle]_vars

\* The bulk calls, on tasks that creation, deletion and the single
\* transitions have brought to every status
NextBulk ==
    \/ CreateDefault \/ Delete \/ Transition \/ BulkTransition \/ BulkAssign

SpecBulk == Init /\ [][NextBulk]_vars

EditUpdate == \E i \in TaskIds, kw \in Kwargs : edits < MaxEditSteps /\ update_task(i, kw)
EditAssign == \E i \in TaskIds, a \in UserIds : edits < MaxEditSteps /\ assign_task(i, a)
EditUnassign == \E i \in TaskIds : edits < MaxEditSteps /\ unassign_task(i)
EditAddTag == \E i \in TaskIds, g \in Tags : edits < MaxEditSteps /\ Task_add_tag(i, g)
EditAddSubtask ==
    \E i \in TaskIds, j \in TaskIds : edits < MaxEditSteps /\ Task_add_subtask(i, j)

\* The editing calls, one after the other, on tasks created with and without
\* the optional arguments and moved through their lifecycle
NextEdit ==
    \/ Create \/ Transition
    \/ EditUpdate \/ EditAssign \/ EditUnassign \/ EditAddTag \/ EditAddSubtask

SpecEdit == Init /\ [][NextEdit]_vars

EditBulkAssign == \E l \in IdLists, a \in UserIds : edits < MaxEditSteps /\ bulk_assign(l, a)
EditAutoAssign ==
    \E i \in TaskIds, l \in TeamLists : edits < MaxEditSteps /\ auto_assign_task(i, l)
EditRemoveTag == \E i \in TaskIds, g \in Tags : edits < MaxEditSteps /\ Task_remove_tag(i, g)
EditRemoveSubtask ==
    \E i \in TaskIds, j \in TaskIds : edits < MaxEditSteps /\ Task_remove_subtask(i, j)

\* Every call that can change a task, with creation, deletion and lookup, at
\* one instant
NextMutate ==
    \/ CreateDefault \/ Delete \/ GetTask
    \/ Transition \/ TaskTransitionTo \/ BulkTransition
    \/ EditUpdate \/ EditAssign \/ EditUnassign \/ EditBulkAssign \/ EditAutoAssign
    \/ EditAddTag \/ EditRemoveTag \/ EditAddSubtask \/ EditRemoveSubtask

SpecMutate == Init /\ [][NextMutate]_vars

\* Automatic assignment among tasks that are assigned, unassigned, active
\* and finished
NextAutoAssign ==
    \/ Create \/ Transition \/ EditAssign \/ EditAutoAssign

SpecAutoAssign == Init /\ [][NextAutoAssign]_vars

\* The arguments of the queries, and tasks that differ in what the queries
\* look at: priority, assignee (user 0 among them) and project
QueryArgs ==
    { <<>>,
      [priority |-> HIGH, assignee_id |-> Some(1), project_id |-> Some(1)],
      [priority |-> HIGH, assignee_id |-> Some(0)],
      [assignee_id |-> Some(1)] }
StatusFilters == {None, Some(TODO), Some(IN_PROGRESS)}
PriorityFilters == {None, Some(HIGH)}
AssigneeFilters == {None, Some(0), Some(1)}
ProjectFilters == {None, Some(1)}
Limits == {-1, 0, 1, 2, 100}
Offsets == {-1, 0, 1, 2}

CreateForQuery == \E a \in QueryArgs : create_task("T", a)
ListTasks ==
    \E st \in StatusFilters, pr \in PriorityFilters, a \in AssigneeFilters,
       pj \in ProjectFilters, limit \in Limits, offset \in Offsets :
        Query("list_tasks", list_tasks(_tasks, st, pr, a, pj, limit, offset))
GetWorkloadDistribution ==
    Query("get_workload_distribution", get_workload_distribution(_tasks))

\* The queries, on tasks created with different arguments, moved through
\* their lifecycle and deleted
NextQuery ==
    \/ CreateForQuery \/ Delete \/ Transition \/ ListTasks \/ GetWorkloadDistribution

SpecQuery == Init /\ [][NextQuery]_vars

\* The arguments of the statistics
DueDates == {0, 1}
ProjectArgs == {None, Some(0), Some(1)}

SetDueDate ==
    \E i \in TaskIds, d \in DueDates :
        edits < MaxEditSteps /\ update_task(i, [due_date |-> Some(d)])
GetTaskStats ==
    \E pj \in ProjectArgs : Query("get_task_stats", get_task_stats(_tasks, pj, now))
IsOverdue ==
    \E i \in DOMAIN _tasks : Query("is_overdue", is_overdue(_tasks[i], now))

\* The statistics and the overdue test, on tasks of different projects that
\* get a due date, move through their lifecycle and grow older
NextStats ==
    \/ Create \/ Transition \/ SetDueDate \/ Tick \/ GetTaskStats \/ IsOverdue

SpecStats == Init /\ [][NextStats]_vars

\* The windows of calculate_velocity, in days
Days == {-1, 0, 1, 2, 7}

CalculateVelocity ==
    \E days \in Days : Answer("calculate_velocity", calculate_velocity(_tasks, days, now))

\* The velocity, of tasks that are completed and deleted as time passes
NextVelocity ==
    \/ CreateDefault \/ Delete \/ Transition \/ Tick \/ CalculateVelocity

SpecVelocity == Init /\ [][NextVelocity]_vars

\* The hours a task may carry: none, zero, and more or less than estimated
Hours == {None, Some(0), Some(3), Some(5), Some(10), Some(20)}

\* a Task constructed with any status, estimated_hours and actual_hours (the
\* fields are plain attributes), held by the service under id 1
InitProgress ==
    /\ \E s \in TaskStatus, e \in Hours, a \in Hours :
          _tasks = (1 :> [Task(1, "T", None, MEDIUM, None, None, 0)
                             EXCEPT !.status = s, !.estimated_hours = e,
                                    !.actual_hours = a])
    /\ _next_id = 2
    /\ now = 0
    /\ last = Call("Task", "task", 1)
    /\ created = <<1>>
    /\ deleted = {}
    /\ ever_done = {i \in {1} : _tasks[i].status = DONE}
    /\ edits = 0
    /\ RateLimitMiddleware_init(60)
    /\ UserService_init

CalculateProgress ==
    \E i \in DOMAIN _tasks : Answer("calculate_progress", calculate_progress(_tasks[i]))

\* calculate_progress applied to every such task
NextProgress == CalculateProgress

SpecProgress == InitProgress /\ [][NextProgress]_vars

\* The operations that look a task up by its id, on tasks created with and
\* without an assignee
NextMiss ==
    \/ Create \/ Update \/ Delete \/ Assign \/ Unassign \/ Transition
    \/ BulkAssign \/ BulkTransition \/ AutoAssign

SpecMiss == Init /\ [][NextMiss]_vars

\* The arguments of list_tasks among the directory's operations
DirectoryLimits == {1, 100}
DirectoryOffsets == {0, 1}

DirectoryListTasks ==
    \E st \in {None, Some(TODO)}, a \in {None, Some(1)},
       limit \in DirectoryLimits, offset \in DirectoryOffsets :
        Query("list_tasks", list_tasks(_tasks, st, None, a, None, limit, offset))
GetOverdueTasks == Query("get_overdue_tasks", get_overdue_tasks(_tasks, now))
GetBlockedTasks == Query("get_blocked_tasks", get_blocked_tasks(_tasks))
GetTasksByTag ==
    \E g \in Tags : Query("get_tasks_by_tag", get_tasks_by_tag(_tasks, g))

\* Every operation of the directory, on tasks that may carry a tag, as time
\* passes
NextDirectory ==
    \/ CreateDefault \/ GetTask \/ DirectoryListTasks \/ Update \/ Delete
    \/ Assign \/ Unassign \/ Transition \/ BulkAssign \/ BulkTransition
    \/ GetOverdueTasks \/ GetBlockedTasks \/ GetTasksByTag \/ GetTaskStats
    \/ CalculateVelocity \/ GetWorkloadDistribution \/ AutoAssign
    \/ AddTag \/ Tick

SpecDirectory == Init /\ [][NextDirectory]_vars

\* Tags as callers write them: upper case, padded, blank, empty
TagArgs == {<<"X">>, <<" ", "x", " ">>, <<"y">>, <<" ">>, <<>>}

TagAdd == \E i \in TaskIds, g \in TagArgs : edits < MaxTagCalls /\ Task_add_tag(i, g)
TagRemove == \E i \in TaskIds, g \in TagArgs : edits < MaxTagCalls /\ Task_remove_tag(i, g)
SubtaskAdd ==
    \E i \in TaskIds, j \in TaskIds : edits < MaxTagCalls /\ Task_add_subtask(i, j)
SubtaskRemove ==
    \E i \in TaskIds, j \in TaskIds : edits < MaxTagCalls /\ Task_remove_subtask(i, j)

\* The tag and subtask methods, called in any order on tasks created with
\* empty tags and subtask_ids
NextTags ==
    \/ CreateDefault \/ TagAdd \/ TagRemove \/ SubtaskAdd \/ SubtaskRemove

SpecTags == Init /\ [][NextTags]_vars

\* Deletion among tasks that name each other as subtasks
NextDelete ==
    \/ CreateDefault \/ Delete \/ GetTask \/ EditAddSubtask

SpecDelete == Init /\ [][NextDelete]_vars

\* The queries of a task
CanTransitionTo ==
    \E i \in DOMAIN _tasks, s \in TaskStatus :
        Query("can_transition_to", can_transition_to(_tasks[i], s))
IsBlocked == \E i \in DOMAIN _tasks : Query("is_blocked", is_blocked(_tasks[i]))
IsCompleted == \E i \in DOMAIN _tasks : Query("is_completed", is_completed(_tasks[i]))
EstimateCompletionDate ==
    \E i \in DOMAIN _tasks :
        Query("estimate_completion_date", estimate_completion_date(_tasks[i], now))

\* Every query of a task and of the directory, on tasks that are updated,
\* moved through their lifecycle and deleted as time passes
NextReadOnly ==
    \/ CreateDefault \/ Update \/ Delete \/ Transition \/ Tick
    \/ CanTransitionTo \/ IsOverdue \/ IsBlocked \/ IsCompleted
    \/ CalculateProgress \/ EstimateCompletionDate
    \/ GetTask \/ DirectoryListTasks \/ GetOverdueTasks \/ GetBlockedTasks
    \/ GetTasksByTag \/ GetTaskStats \/ CalculateVelocity \/ GetWorkloadDistribution

SpecReadOnly == Init /\ [][NextReadOnly]_vars

FindTasksByTag ==
    \E g \in TagArgs : Query("get_tasks_by_tag", get_tasks_by_tag(_tasks, g))

\* The three searches and the statistics, on tasks that are tagged, get a due
\* date and move through their lifecycle as time passes
NextFind ==
    \/ CreateDefault \/ Transition \/ SetDueDate \/ EditAddTag \/ Tick
    \/ GetOverdueTasks \/ GetBlockedTasks \/ FindTasksByTag \/ GetTaskStats

SpecFind == Init /\ [][NextFind]_vars

\* The candidate lists of auto-assignment, user 0 among the candidates
CandidateLists == {<<1, 2>>, <<2, 1>>, <<0, 1>>, <<1, 0>>}

AutoAssignUnassigned ==
    \E i \in DOMAIN _tasks, l \in CandidateLists :
        /\ edits < MaxEditSteps
        /\ _tasks[i].assignee_id = None
        /\ auto_assign_task(i, l)

\* Tasks are created unassigned and auto-assigned, each once; no task is
\* transitioned, reassigned or deleted
NextBalance ==
    \/ CreateDefault \/ AutoAssignUnassigned \/ GetWorkloadDistribution \/ Tick

SpecBalance == Init /\ [][NextBalance]_vars

----------------------------------------------------------------------------
(* RateLimitMiddleware: the sliding window of one minute per client        *)

\* the state of the task service, and of the user service
task_vars == <<_tasks, _next_id, created, deleted, ever_done, edits>>
user_vars == <<_users, _next_user_id>>

\* timedelta(minutes=1), with the instants counted in half minutes
Minute == 2
MaxRateTime == 5
RequestsPerMinute == {0, 1, 2}

\* the instants of the list that are later than minute_ago
later_than(requests, minute_ago) ==
    LET later(ts) == ts > minute_ago
    IN  SelectSeq(requests, later)

\* is_rate_limited rejecting only when the limit is exceeded, not reached
is_rate_limited_when_exceeded(client_id) ==
    LET minute_ago == now - Minute
        requests == later_than(_request_counts[client_id], minute_ago)
    IN  /\ IF Len(requests) > requests_per_minute
           THEN /\ _request_counts' = [_request_counts EXCEPT ![client_id] = requests]
                /\ last' = Call("is_rate_limited", "value", TRUE)
                /\ UNCHANGED admitted
           ELSE /\ _request_counts' =
                      [_request_counts EXCEPT ![client_id] = Append(requests, now)]
                /\ last' = Call("is_rate_limited", "value", FALSE)
                /\ admitted' = [admitted EXCEPT ![client_id] = Append(@, now)]
        /\ UNCHANGED <<task_vars, user_vars, requests_per_minute, now>>

\* the old requests of the client are dropped, also when the call is
\* rejected; the request is recorded when it is admitted
is_rate_limited(client_id) ==
    LET minute_ago == now - Minute
        requests == later_than(_request_counts[client_id], minute_ago)
    IN  /\ IF Len(requests) >= requests_per_minute
           THEN /\ _request_counts' = [_request_counts EXCEPT ![client_id] = requests]
                /\ last' = Call("is_rate_limited", "value", TRUE)
                /\ UNCHANGED admitted
           ELSE /\ _request_counts' =
                      [_request_counts EXCEPT ![client_id] = Append(requests, now)]
                /\ last' = Call("is_rate_limited", "value", FALSE)
                /\ admitted' = [admitted EXCEPT ![client_id] = Append(@, now)]
        /\ UNCHANGED <<task_vars, user_vars, requests_per_minute, now>>

get_remaining_requests(counts, rpm, client_id, t) ==
    LET current_count == Len(later_than(counts[client_id], t - Minute))
    IN  IF rpm - current_count > 0 THEN rpm - current_count ELSE 0

\* time passes between the requests
RateTick ==
    /\ now < MaxRateTime
    /\ now' = now + 1
    /\ last' = Call("tick", "none", <<>>)
    /\ UNCHANGED <<task_vars, other_vars>>

InitRate ==
    /\ _tasks = <<>>
    /\ _next_id = 1
    /\ now = 0
    /\ last = Call("__init__", "none", <<>>)
    /\ created = <<>>
    /\ deleted = {}
    /\ ever_done = {}
    /\ edits = 0
    /\ \E rpm \in RequestsPerMinute : RateLimitMiddleware_init(rpm)
    /\ UserService_init

IsRateLimited == \E c \in Clients : is_rate_limited(c)
GetRemainingRequests ==
    \E c \in Clients :
        Query("get_remaining_requests",
              get_remaining_requests(_request_counts, requests_per_minute, c, now))

\* The requests of two clients as time passes, under limits of 0, 1 and 2
NextRate ==
    \/ IsRateLimited \/ GetRemainingRequests \/ RateTick

SpecRate == InitRate /\ [][NextRate]_vars

----------------------------------------------------------------------------
(* User and UserService                                                    *)

ACTIVE == "active"
INACTIVE == "inactive"
PENDING == "pending"
SUSPENDED == "suspended"
UserStatus == {ACTIVE, INACTIVE, PENDING, SUSPENDED}

ADMIN == "admin"
MANAGER == "manager"
DEVELOPER == "developer"
VIEWER == "viewer"
UserRole == {ADMIN, MANAGER, DEVELOPER, VIEWER}

MaxUsers == 2

User(id, email, name, role, status, t) ==
    [id |-> id, email |-> email, name |-> name, role |-> role, status |-> status,
     created_at |-> t, updated_at |-> None]

\* the methods of User: the user they leave, and whether they raise
User_activate(user, t) ==
    IF user.status = SUSPENDED
    THEN [raised |-> TRUE, user |-> user]
    ELSE [raised |-> FALSE,
          user |-> [user EXCEPT !.status = ACTIVE, !.updated_at = Some(t)]]

User_deactivate(user, t) == [user EXCEPT !.status = INACTIVE, !.updated_at = Some(t)]

User_suspend(user, t) == [user EXCEPT !.status = SUSPENDED, !.updated_at = Some(t)]

\* a call of the user service that leaves the task service and the rate
\* limiter alone
UserFrame == UNCHANGED <<task_vars, now, requests_per_minute, _request_counts, admitted>>

create_user(email, name, role) ==
    /\ _next_user_id <= MaxUsers
    /\ IF \E i \in DOMAIN _users : _users[i].email = email
       THEN /\ last' = Call("create_user", "raised", <<>>)
            /\ UNCHANGED <<_users, _next_user_id>>
       ELSE /\ _users' = Put(_users, _next_user_id,
                             User(_next_user_id, email, name, role, PENDING, now))
            /\ _next_user_id' = _next_user_id + 1
            /\ last' = Call("create_user", "user", _next_user_id)
    /\ UserFrame

\* a call that finds no user
UserMiss(op) ==
    /\ last' = Call(op, "none", <<>>)
    /\ UNCHANGED <<_users, _next_user_id>>
    /\ UserFrame

\* a call that leaves `user` as the stored user user_id and returns it
UserStore(op, user_id, user) ==
    /\ _users' = [_users EXCEPT ![user_id] = user]
    /\ last' = Call(op, "user", user_id)
    /\ UNCHANGED _next_user_id
    /\ UserFrame

user_allowed_fields == {"name", "email", "role", "status"}

\* setattr for each name of kwargs that is allowed
user_set_fields(user, kwargs) ==
    [f \in DOMAIN user |->
        IF f \in DOMAIN kwargs \cap user_allowed_fields THEN kwargs[f] ELSE user[f]]

update_user(user_id, kwargs) ==
    IF user_id \notin DOMAIN _users
    THEN UserMiss("update_user")
    ELSE UserStore("update_user", user_id,
                   [user_set_fields(_users[user_id], kwargs) EXCEPT !.updated_at = Some(now)])

delete_user(user_id) ==
    /\ IF user_id \in DOMAIN _users
       THEN /\ _users' = [i \in DOMAIN _users \ {user_id} |-> _users[i]]
            /\ last' = Call("delete_user", "true", <<>>)
       ELSE /\ last' = Call("delete_user", "false", <<>>)
            /\ UNCHANGED _users
    /\ UNCHANGED _next_user_id
    /\ UserFrame

activate_user(user_id) ==
    IF user_id \notin DOMAIN _users
    THEN UserMiss("activate_user")
    ELSE LET r == User_activate(_users[user_id], now)
         IN  /\ _users' = [_users EXCEPT ![user_id] = r.user]
             /\ last' = IF r.raised
                        THEN Call("activate_user", "raised", <<>>)
                        ELSE Call("activate_user", "user", user_id)
             /\ UNCHANGED _next_user_id
             /\ UserFrame

suspend_user(user_id) ==
    IF user_id \notin DOMAIN _users
    THEN UserMiss("suspend_user")
    ELSE UserStore("suspend_user", user_id, User_suspend(_users[user_id], now))

RECURSIVE bulk_deactivate_loop(_, _, _, _)
bulk_deactivate_loop(us, results, user_ids, t) ==
    IF user_ids = <<>> THEN [users |-> us, results |-> results]
    ELSE LET user_id == Head(user_ids)
         IN  IF user_id \in DOMAIN us
             THEN bulk_deactivate_loop([us EXCEPT ![user_id] = User_deactivate(@, t)],
                                       Put(results, user_id, TRUE), Tail(user_ids), t)
             ELSE bulk_deactivate_loop(us, Put(results, user_id, FALSE),
                                       Tail(user_ids), t)

bulk_deactivate(user_ids) ==
    LET r == bulk_deactivate_loop(_users, <<>>, user_ids, now)
    IN  /\ _users' = r.users
        /\ last' = Call("bulk_deactivate", "dict", r.results)
        /\ UNCHANGED _next_user_id
        /\ UserFrame

\* the arguments of the user service
UserKeys == 1..MaxUsers
Emails == {"a@x.org", "b@x.org"}
UserKwargs ==
    { <<>>,
      [email |-> "a@x.org"],
      [email |-> "b@x.org", name |-> "N", id |-> 9],
      [status |-> ACTIVE, role |-> ADMIN] }
UserIdLists == {<<>>, <<1>>, <<2, 1>>}

CreateUser == \E e \in Emails : create_user(e, "U", DEVELOPER)
UpdateUser == \E i \in UserKeys, kw \in UserKwargs : update_user(i, kw)
DeleteUser == \E i \in UserKeys : delete_user(i)
ActivateUser == \E i \in UserKeys : activate_user(i)
SuspendUser == \E i \in UserKeys : suspend_user(i)
BulkDeactivate == \E l \in UserIdLists : bulk_deactivate(l)

\* The user service: users are created, updated, activated, suspended,
\* deactivated and deleted
NextUsers ==
    \/ CreateUser \/ UpdateUser \/ DeleteUser \/ ActivateUser \/ SuspendUser
    \/ BulkDeactivate

SpecUsers == Init /\ [][NextUsers]_vars

----------------------------------------------------------------------------
(* The properties of the lifecycle *)

\* the nine edges of the state machine
LegalEdges ==
    { <<TODO, IN_PROGRESS>>, <<TODO, CANCELLED>>,
      <<IN_PROGRESS, IN_REVIEW>>, <<IN_PROGRESS, BLOCKED>>, <<IN_PROGRESS, CANCELLED>>,
      <<IN_REVIEW, DONE>>, <<IN_REVIEW, IN_PROGRESS>>,
      <<BLOCKED, IN_PROGRESS>>, <<BLOCKED, CANCELLED>> }

Stored == DOMAIN _tasks
\* the tasks stored before and after a step
Kept == DOMAIN _tasks \cap DOMAIN _tasks'

\* C1: transition_to(target) along a legal edge succeeds; afterwards status
\* is the target, updated_at is set, and completed_at is set by the call
\* exactly when the target is DONE.
C1_LegalTransition ==
    [][\A i \in Stored, s \in TaskStatus :
          (<<_tasks[i].status, s>> \in LegalEdges /\ Task_transition_to(i, s)) =>
              /\ last'.ret = "none"
              /\ _tasks'[i].status = s
              /\ _tasks'[i].updated_at # None
              /\ (s = DONE => /\ _tasks'[i].completed_at = Some(now)
                              /\ _tasks[i].completed_at = None)
              /\ (s # DONE => _tasks'[i].completed_at = _tasks[i].completed_at)]_vars

C1_Witness ==
    /\ last.op = "transition_to" /\ last.ret = "none"
    /\ \E i \in Stored : _tasks[i].status = DONE /\ _tasks[i].completed_at # None
    /\ \E i \in Stored : _tasks[i].status = BLOCKED /\ _tasks[i].completed_at = None

\* C2: transition_to(target) along any pair that is no legal edge raises and
\* leaves the task, and everything else, as it was.
C2_IllegalTransition ==
    [][\A i \in Stored, s \in TaskStatus :
          (<<_tasks[i].status, s>> \notin LegalEdges /\ Task_transition_to(i, s)) =>
              /\ last'.ret = "raised"
              /\ _tasks' = _tasks
              /\ _next_id' = _next_id]_vars

C2_Witness ==
    /\ last.op = "transition_to" /\ last.ret = "raised"
    /\ \E i \in Stored : _tasks[i].status = DONE
    /\ \E i \in Stored : _tasks[i].status = IN_PROGRESS

\* C3: whenever the status of a stored task differs between two consecutive
\* states, the pair (old, new) is a legal edge and the step is a transition,
\* single or bulk.
C3_StatusAlongEdges ==
    [][\A i \in Kept :
          _tasks'[i].status # _tasks[i].status =>
              /\ <<_tasks[i].status, _tasks'[i].status>> \in LegalEdges
              /\ last'.op \in {"transition_task", "bulk_transition", "transition_to"}]_vars

C3_Witness ==
    /\ last.op = "update_task"
    /\ \E i \in Stored : _tasks[i].status = IN_REVIEW /\ _tasks[i].title = "T"
                           /\ _tasks[i].updated_at = Some(now)

\* C4: a task that is DONE or CANCELLED can transition to no status, and its
\* status is the same after every step.
Terminal(i) == _tasks[i].status \in {DONE, CANCELLED}

C4_Terminal ==
    /\ [](\A i \in Stored : Terminal(i) =>
              \A s \in TaskStatus : ~can_transition_to(_tasks[i], s))
    /\ [][\A i \in Kept : Terminal(i) => _tasks'[i].status = _tasks[i].status]_vars

C4_Witness ==
    /\ last.op = "bulk_transition"
    /\ \E i \in DOMAIN last.value : ~last.value[i] /\ i \in Stored /\ _tasks[i].status = DONE
    /\ \E i \in Stored : _tasks[i].status = CANCELLED

\* C5: completed_at of a stored task is set exactly when the status of the
\* task has been DONE at some point since its creation.
C5_CompletedIffEverDone ==
    \A i \in Stored : (_tasks[i].completed_at # None) <=> (i \in ever_done)

C5_Witness ==
    /\ \E i \in Stored : i \in ever_done /\ _tasks[i].updated_at # _tasks[i].completed_at
    /\ \E i \in Stored : i \notin ever_done /\ _tasks[i].status = CANCELLED

\* C6: once completed_at is set, every step leaves it with the same value.
C6_CompletedOnce ==
    [][\A i \in Kept :
          _tasks[i].completed_at # None =>
              _tasks'[i].completed_at = _tasks[i].completed_at]_vars

C6_Witness ==
    /\ last.op = "update_task"
    /\ \E i \in Stored : /\ _tasks[i].completed_at = Some(0)
                           /\ _tasks[i].updated_at = Some(1)

\* C7: the k-th call of create_task returns id k, whatever was deleted in
\* between; no id is returned twice.
C7_SequentialIds ==
    /\ \A k \in 1..Len(created) : created[k] = k
    /\ \A k, l \in 1..Len(created) : created[k] = created[l] => k = l
    /\ (last.op = "create_task" => last.value = Len(created))

C7_Witness ==
    /\ last.op = "create_task" /\ last.value = 2
    /\ Stored = {2}

\* C8: the id of every stored task is the key it is stored under, lies in
\* 1.._next_id - 1, is the id of no other stored task, and is an id handed
\* out by create_task.
C8_IdIsKey ==
    /\ \A i \in Stored : /\ _tasks[i].id = i
                           /\ i \in 1..(_next_id - 1)
                           /\ i \in Range(created)
    /\ \A i, j \in Stored : _tasks[i].id = _tasks[j].id => i = j

C8_Witness ==
    /\ last.op = "update_task"
    /\ Cardinality(Stored) = 2
    /\ \E i \in Stored : _tasks[i].updated_at # None /\ _tasks[i].title = "T"

\* C9: the task create_task returns is stored under a fresh id in the
\* initial state of the lifecycle: status TODO, priority MEDIUM unless given,
\* updated_at and completed_at unset, no tags, no subtasks, assignee_id and
\* project_id as passed (unset by default).
C9_CreatedInitial ==
    [][\A a \in CreateArgs :
          create_task("T", a) =>
              /\ last'.ret = "task"
              /\ last'.value \notin Stored
              /\ LET task == _tasks'[last'.value]
                 IN  /\ task.status = TODO
                     /\ task.priority = (IF "priority" \in DOMAIN a THEN a.priority ELSE MEDIUM)
                     /\ task.updated_at = None
                     /\ task.completed_at = None
                     /\ task.tags = <<>>
                     /\ task.subtask_ids = <<>>
                     /\ task.assignee_id =
                            (IF "assignee_id" \in DOMAIN a THEN a.assignee_id ELSE None)
                     /\ task.project_id =
                            (IF "project_id" \in DOMAIN a THEN a.project_id ELSE None)]_vars

C9_Witness ==
    /\ last.op = "create_task"
    /\ \E i, j \in Stored :
          /\ last.value = j
          /\ _tasks[i].priority = MEDIUM /\ _tasks[i].assignee_id = None
          /\ _tasks[j].priority = HIGH /\ _tasks[j].assignee_id = Some(1)
          /\ _tasks[j].status = TODO

\* C10: transition_task returns None exactly when the id is not stored; on a
\* stored task it does what transition_to does: along a legal edge the task
\* is returned with the new status, otherwise the ValueError reaches the
\* caller and nothing has changed.
C10_TransitionTask ==
    [][\A i \in TaskIds, s \in TaskStatus :
          transition_task(i, s) =>
              /\ (last'.ret = "none") <=> (i \notin Stored)
              /\ i \notin Stored => _tasks' = _tasks
              /\ (i \in Stored /\ <<_tasks[i].status, s>> \in LegalEdges) =>
                    /\ last'.ret = "task" /\ last'.value = i
                    /\ _tasks'[i].status = s
                    /\ _tasks' = [_tasks EXCEPT ![i] = transition_to(@, s, now).task]
              /\ (i \in Stored /\ <<_tasks[i].status, s>> \notin LegalEdges) =>
                    /\ last'.ret = "raised"
                    /\ _tasks' = _tasks]_vars

C10_Witness ==
    /\ last.op = "transition_task" /\ last.ret = "raised"
    /\ Stored = {2}
    /\ _tasks[2].status = IN_REVIEW

----------------------------------------------------------------------------
(* The properties of the bulk calls *)

\* a list that names no id twice
Distinct(l) == Cardinality(Range(l)) = Len(l)

\* C11: bulk_transition never raises; for a list of distinct ids the result
\* maps an id to True and the task's status becomes the target when the task
\* is stored and the edge is legal, and maps it to False leaving the task
\* unchanged otherwise; tasks not named are unchanged, and a success is kept
\* whatever happens to the other ids.
C11_BulkTransition ==
    [][\A l \in IdLists, s \in TaskStatus :
          (Distinct(l) /\ bulk_transition(l, s)) =>
              /\ last'.ret = "dict"
              /\ DOMAIN last'.value = Range(l)
              /\ DOMAIN _tasks' = DOMAIN _tasks
              /\ \A i \in Range(l) :
                    IF i \in Stored /\ <<_tasks[i].status, s>> \in LegalEdges
                    THEN /\ last'.value[i] = TRUE
                         /\ _tasks'[i].status = s
                    ELSE /\ last'.value[i] = FALSE
                         /\ i \in Stored => _tasks'[i] = _tasks[i]
              /\ \A i \in Stored \ Range(l) : _tasks'[i] = _tasks[i]]_vars

C11_Witness ==
    /\ last.op = "bulk_transition" /\ last.ret = "dict"
    /\ last.value = (2 :> TRUE @@ 1 :> FALSE)
    /\ Stored = {1, 2}
    /\ _tasks[2].status = DONE /\ _tasks[1].status = TODO

\* C12: bulk_assign maps every id of the list to True if the task is stored
\* and to False if it is missing; every stored task named ends with the given
\* assignee and updated_at stamped, also when another id of the list is
\* missing, and the tasks not named are unchanged.
C12_BulkAssign ==
    [][\A l \in IdLists, a \in UserIds :
          bulk_assign(l, a) =>
              /\ last'.ret = "dict"
              /\ DOMAIN last'.value = Range(l)
              /\ DOMAIN _tasks' = DOMAIN _tasks
              /\ \A i \in Range(l) :
                    /\ last'.value[i] = (i \in Stored)
                    /\ i \in Stored =>
                          _tasks'[i] = [_tasks[i] EXCEPT !.assignee_id = Some(a),
                                                         !.updated_at = Some(now)]
              /\ \A i \in Stored \ Range(l) : _tasks'[i] = _tasks[i]]_vars

C12_Witness ==
    /\ last.op = "bulk_assign"
    /\ last.value = (2 :> TRUE @@ 1 :> FALSE)
    /\ Stored = {2}
    /\ _tasks[2].assignee_id = Some(2) /\ _tasks[2].updated_at # None

----------------------------------------------------------------------------
(* The properties of the editing calls *)

\* the names update_task may set, and the fields it may not reach
UpdatableFields ==
    {"title", "description", "priority", "assignee_id", "due_date", "estimated_hours"}
ProtectedFields ==
    {"status", "id", "project_id", "parent_task_id", "subtask_ids", "tags",
     "actual_hours", "created_at", "completed_at"}

\* C13: update_task on a stored task changes only fields of the allow-list:
\* status, id, project_id, parent_task_id, subtask_ids, tags, actual_hours,
\* created_at and completed_at are unchanged whatever the map of fields, a
\* name outside the allow-list is ignored without error, and each name of
\* the allow-list in the map takes the given value.
C13_UpdateAllowList ==
    [][\A i \in TaskIds, kw \in Kwargs :
          (i \in Stored /\ update_task(i, kw)) =>
              /\ last'.ret = "task" /\ last'.value = i
              /\ DOMAIN _tasks' = DOMAIN _tasks
              /\ \A f \in ProtectedFields : _tasks'[i][f] = _tasks[i][f]
              /\ \A f \in UpdatableFields :
                    _tasks'[i][f] = IF f \in DOMAIN kw THEN kw[f] ELSE _tasks[i][f]
              /\ \A j \in Stored \ {i} : _tasks'[j] = _tasks[j]]_vars

C13_Witness ==
    /\ last.op = "update_task" /\ last.ret = "task"
    /\ \E i \in Stored :
          /\ last.value = i
          /\ _tasks[i].title = "U" /\ _tasks[i].priority = LOW
          /\ _tasks[i].assignee_id = Some(2)
          /\ _tasks[i].status = IN_PROGRESS
          /\ _tasks[i].tags = << <<"x">> >>

\* C14: update_task on a stored task always stamps updated_at, also when the
\* map of fields is empty or holds only names outside the allow-list:
\* updated_at is set afterwards although no other field has changed.
C14_UpdateAlwaysStamps ==
    [][\A i \in TaskIds, kw \in Kwargs :
          (i \in Stored /\ update_task(i, kw)) =>
              /\ _tasks'[i].updated_at = Some(now)
              /\ DOMAIN kw \cap UpdatableFields = {} =>
                    _tasks'[i] = [_tasks[i] EXCEPT !.updated_at = Some(now)]]_vars

C14_Witness ==
    /\ last.op = "update_task" /\ last.ret = "task" /\ last.value = 1
    /\ edits = 1
    /\ 1 \in Stored
    /\ _tasks[1] = [Task(1, "T", None, MEDIUM, None, None, 0) EXCEPT !.updated_at = Some(0)]

\* C19: assign_task on a stored task sets assignee_id to the given user and
\* unassign_task clears it; each stamps updated_at and changes no other field
\* and no other task, whatever the status of the task, DONE and CANCELLED
\* included; after unassign_task the task is unassigned, whoever it was
\* assigned to.
C19_AssignUnassign ==
    [][\A i \in Stored :
          /\ \A a \in UserIds :
                assign_task(i, a) =>
                    /\ last'.ret = "task" /\ last'.value = i
                    /\ _tasks' = [_tasks EXCEPT ![i] =
                                      [@ EXCEPT !.assignee_id = Some(a),
                                                !.updated_at = Some(now)]]
          /\ unassign_task(i) =>
                /\ last'.ret = "task" /\ last'.value = i
                /\ _tasks'[i].assignee_id = None
                /\ _tasks' = [_tasks EXCEPT ![i] =
                                  [@ EXCEPT !.assignee_id = None,
                                            !.updated_at = Some(now)]]]_vars

\* the one edit of a task created with an assignee and since DONE has been
\* unassign_task
C19_Witness ==
    /\ last.op = "unassign_task" /\ last.ret = "task" /\ last.value = 1
    /\ edits = 1
    /\ 1 \in Stored
    /\ _tasks[1].status = DONE
    /\ _tasks[1].description = Some("d")
    /\ _tasks[1].assignee_id = None

----------------------------------------------------------------------------
(* The properties of updated_at *)

\* the step is a successful transition of task i
Transitioned(i) ==
    \E s \in TaskStatus :
        /\ <<_tasks[i].status, s>> \in LegalEdges
        /\ \/ Task_transition_to(i, s)
           \/ transition_task(i, s)
           \/ \E l \in IdLists : i \in Range(l) /\ bulk_transition(l, s)

\* the step is a call of update_task or of an assignment operation on task i
Reassigned(i) ==
    \/ \E kw \in Kwargs : update_task(i, kw)
    \/ \E a \in UserIds : assign_task(i, a)
    \/ unassign_task(i)
    \/ \E l \in IdLists, a \in UserIds : i \in Range(l) /\ bulk_assign(l, a)

\* the step is a call of one of the mutating operations on task i
Called(i) ==
    \/ Transitioned(i)
    \/ Reassigned(i)
    \/ \E l \in TeamLists : auto_assign_task(i, l)
    \/ \E g \in Tags : Task_add_tag(i, g) \/ Task_remove_tag(i, g)
    \/ \E j \in TaskIds : Task_add_subtask(i, j) \/ Task_remove_subtask(i, j)

\* the step is a call of one of the mutating operations on task i that has
\* something to do: a team to choose from, a tag or subtask to add that is
\* not there (and not empty), one to remove that is there
Changed(i) ==
    \/ Transitioned(i)
    \/ Reassigned(i)
    \/ \E l \in TeamLists : l # <<>> /\ auto_assign_task(i, l)
    \/ \E g \in Tags :
          \/ /\ strip(lower(g)) # <<>>
             /\ strip(lower(g)) \notin Range(_tasks[i].tags)
             /\ Task_add_tag(i, g)
          \/ /\ strip(lower(g)) \in Range(_tasks[i].tags)
             /\ Task_remove_tag(i, g)
    \/ \E j \in TaskIds :
          \/ j \notin Range(_tasks[i].subtask_ids) /\ Task_add_subtask(i, j)
          \/ j \in Range(_tasks[i].subtask_ids) /\ Task_remove_subtask(i, j)

\* C15 as stated: updated_at is None exactly as long as none of the mutating
\* operations (a successful transition, update_task, the assignment
\* operations, add_tag, remove_tag, add_subtask, remove_subtask) has been
\* called on the task since create_task.
C15_StampedByEveryCall ==
    [][/\ \A i \in DOMAIN _tasks' \ DOMAIN _tasks : _tasks'[i].updated_at = None
       /\ \A i \in Kept :
             IF _tasks[i].updated_at = None
             THEN (_tasks'[i].updated_at # None) <=> Called(i)
             ELSE _tasks'[i].updated_at # None]_vars

\* C15: updated_at is None exactly as long as no mutating operation has
\* changed the task since create_task: a successful transition, update_task,
\* assign_task, unassign_task, bulk_assign, auto_assign_task with a team, or
\* a tag or subtask method that changes the list. A call that finds nothing
\* to do leaves updated_at as it is.
C15_StampedByEveryChange ==
    [][/\ \A i \in DOMAIN _tasks' \ DOMAIN _tasks : _tasks'[i].updated_at = None
       /\ \A i \in Kept :
             IF _tasks[i].updated_at = None
             THEN (_tasks'[i].updated_at # None) <=> Changed(i)
             ELSE _tasks'[i].updated_at # None]_vars

C15_Witness ==
    /\ last.op = "remove_tag"
    /\ Stored = {1, 2}
    /\ _tasks[1].updated_at = None /\ _tasks[1].tags = <<>>
    /\ _tasks[2].updated_at # None /\ _tasks[2].tags = << <<"x">> >>

----------------------------------------------------------------------------
(* The properties of deletion and lookup *)

\* C16: delete_task returns True exactly when the id is stored, and then
\* removes that task and nothing else: every other task is unchanged, also
\* one that names the deleted id among its subtask_ids, and the id counter
\* is unchanged; the id is not stored afterwards, so that a second
\* delete_task returns False.
C16_DeleteOnlyThat ==
    [][\A i \in TaskIds :
          delete_task(i) =>
              /\ last'.ret = (IF i \in Stored THEN "true" ELSE "false")
              /\ DOMAIN _tasks' = DOMAIN _tasks \ {i}
              /\ \A j \in DOMAIN _tasks' : _tasks'[j] = _tasks[j]
              /\ _next_id' = _next_id]_vars

C16_Witness ==
    /\ last.op = "delete_task" /\ last.ret = "true"
    /\ Stored = {1}
    /\ _tasks[1].subtask_ids = <<2>>
    /\ _next_id = 3

\* C17: in every reachable state get_task(id) returns a task if and only if
\* the id was returned by an earlier create_task and no delete_task(id) has
\* succeeded since; the task returned is the one with that id, and a miss
\* returns None without raising.
C17_GetTask ==
    /\ \A i \in 0..(MaxTasks + 1) :
          /\ (get_task(_tasks, i) # None) <=> (i \in Range(created) /\ i \notin deleted)
          /\ get_task(_tasks, i) # None => get_task(_tasks, i)[1].id = i
    /\ last.op = "get_task" =>
          /\ last.ret = "value"
          /\ last.value # None =>
                /\ last.value[1].id \in Range(created) \ deleted
                /\ last.value[1] = _tasks[last.value[1].id]

C17_Witness ==
    /\ last.op = "get_task" /\ last.value = None
    /\ created = <<1, 2>> /\ deleted = {1}
    /\ Stored = {2}

----------------------------------------------------------------------------
(* The properties of the queries *)

\* the stored tasks, in order, that pass every filter given
Filtered(status, priority, assignee_id, project_id) ==
    LET Passes(i) ==
            /\ status # None => _tasks[i].status = status[1]
            /\ priority # None => _tasks[i].priority = priority[1]
            /\ assignee_id # None => _tasks[i].assignee_id = assignee_id
            /\ project_id # None => _tasks[i].project_id = project_id
    IN  SelectSeq(Ordered(Stored), Passes)

\* C18: list_tasks with limit >= 0 and offset >= 0 returns exactly the
\* elements at positions offset .. offset+limit-1 of the sequence of stored
\* tasks that pass every given filter: the page is cut after filtering, it
\* has at most limit tasks, and with no filter, offset 0 and a limit that is
\* large enough it holds every stored task once.
C18_ListTasks ==
    /\ last.op = "list_tasks" => last.ret = "value"
    /\ \A st \in StatusFilters, pr \in PriorityFilters, a \in AssigneeFilters,
          pj \in ProjectFilters, limit \in Limits, offset \in Offsets :
          (limit >= 0 /\ offset >= 0) =>
              LET F == Filtered(st, pr, a, pj)
                  r == list_tasks(_tasks, st, pr, a, pj, limit, offset)
                  rest == IF Len(F) > offset THEN Len(F) - offset ELSE 0
              IN  /\ Len(r) = (IF limit < rest THEN limit ELSE rest)
                  /\ \A k \in 1..Len(r) : r[k] = F[offset + k]
                  /\ Len(r) <= limit
                  /\ (st = None /\ pr = None /\ a = None /\ pj = None
                        /\ offset = 0 /\ limit >= Cardinality(Stored)) =>
                          /\ Range(r) = Stored
                          /\ Len(r) = Cardinality(Stored)

C18_Witness ==
    /\ last.op = "list_tasks" /\ last.value = <<2>>
    /\ Stored = {1, 2}
    /\ _tasks[1].priority = MEDIUM /\ _tasks[2].priority = HIGH
    /\ _tasks[1].status = TODO /\ _tasks[2].status = TODO

\* the sum of the values of a dict
RECURSIVE SumOf(_)
SumOf(d) ==
    IF DOMAIN d = {} THEN 0
    ELSE LET k == CHOOSE x \in DOMAIN d : TRUE
         IN  d[k] + SumOf([x \in DOMAIN d \ {k} |-> d[x]])

\* the stored tasks assigned to user a that are neither DONE nor CANCELLED
ActiveOf(a) ==
    {i \in Stored : /\ _tasks[i].assignee_id = Some(a)
                    /\ _tasks[i].status \notin {DONE, CANCELLED}}

\* C20: in every reachable state get_workload_distribution gives, for every
\* user id that is the assignee_id of some stored task, the number of stored
\* tasks assigned to that user that are neither DONE nor CANCELLED (a user
\* without an entry counts as zero); unassigned tasks contribute nothing, so
\* the counts add up to the number of stored tasks that have an assignee and
\* are neither DONE nor CANCELLED.
C20_Workload ==
    LET workload == get_workload_distribution(_tasks)
        assigned == {i \in Stored : _tasks[i].assignee_id # None}
    IN  /\ \A i \in assigned :
              Get(workload, _tasks[i].assignee_id[1], 0)
                  = Cardinality(ActiveOf(_tasks[i].assignee_id[1]))
        /\ DOMAIN workload \subseteq {_tasks[i].assignee_id[1] : i \in assigned}
        /\ SumOf(workload)
              = Cardinality({i \in assigned : _tasks[i].status \notin {DONE, CANCELLED}})

----------------------------------------------------------------------------
(* The properties of automatic assignment and of the statistics *)

\* C21: auto_assign_task on a stored task with a team that is not empty
\* assigns the task to the member whose count in the workload distribution
\* before the call is lowest (no entry counts as 0); among the members with
\* the lowest count the first of the list is chosen; the assignee is a
\* member of the list.
C21_AutoAssign ==
    [][\A i \in Stored, l \in TeamLists :
          (l # <<>> /\ auto_assign_task(i, l)) =>
              LET workload == get_workload_distribution(_tasks)
                  load(m) == IF m \in DOMAIN workload THEN workload[m] ELSE 0
              IN  /\ last'.ret = "task" /\ last'.value = i
                  /\ _tasks'[i].assignee_id # None
                  /\ \E k \in 1..Len(l) :
                        /\ _tasks'[i].assignee_id = Some(l[k])
                        /\ \A j \in 1..Len(l) : load(l[k]) <= load(l[j])
                        /\ \A j \in 1..(k - 1) : load(l[j]) > load(l[k])
                  /\ _tasks' = [_tasks EXCEPT ![i] =
                                    [@ EXCEPT !.assignee_id = _tasks'[i].assignee_id,
                                              !.updated_at = Some(now)]]]_vars

\* task 2 went to user 2 while user 1 had the one active task
C21_Witness ==
    /\ last.op = "auto_assign_task" /\ last.ret = "task" /\ last.value = 2
    /\ Stored = {1, 2}
    /\ _tasks[1].assignee_id = Some(1) /\ _tasks[1].status = IN_PROGRESS
    /\ _tasks[2].assignee_id = Some(2) /\ _tasks[2].description = None
    /\ edits = 1

\* the task is past its due date and not DONE
Overdue(i) ==
    /\ _tasks[i].due_date # None
    /\ _tasks[i].status # DONE
    /\ now > _tasks[i].due_date[1]

\* C22: for every project_id argument (None or a project id) get_task_stats
\* returns total equal to the number of stored tasks in scope (all of them,
\* or those of that project), each of the six status counts equal to the
\* number of tasks in scope with that status, and overdue equal to the
\* number of tasks in scope that are overdue; so total is the sum of the six
\* status counts and overdue is at most total.
C22_TaskStats ==
    /\ last.op = "get_task_stats" => last.ret = "value"
    /\ \A pj \in ProjectArgs :
          LET stats == get_task_stats(_tasks, pj, now)
              scope == {i \in Stored : pj = None \/ _tasks[i].project_id = pj}
          IN  /\ DOMAIN stats = {"total", "overdue"} \cup TaskStatus
              /\ stats["total"] = Cardinality(scope)
              /\ \A s \in TaskStatus :
                    stats[s] = Cardinality({i \in scope : _tasks[i].status = s})
              /\ stats["overdue"] = Cardinality({i \in scope : Overdue(i)})
              /\ stats["total"] = stats[TODO] + stats[IN_PROGRESS] + stats[IN_REVIEW]
                                    + stats[DONE] + stats[BLOCKED] + stats[CANCELLED]
              /\ stats["overdue"] <= stats["total"]

\* the statistics of project 1: one of the two stored tasks, and it is overdue
C22_Witness ==
    /\ last.op = "get_task_stats"
    /\ last.value["total"] = 1 /\ last.value["overdue"] = 1
    /\ last.value[IN_PROGRESS] = 1
    /\ Stored = {1, 2}
    /\ _tasks[1].project_id = None /\ _tasks[1].status = TODO
    /\ _tasks[2].project_id = Some(1)

\* C24: is_overdue is true if and only if due_date is set, the status is not
\* DONE and the current time is later than due_date: false for every DONE
\* task and every task without due_date, true with a past due_date in each
\* of the five other statuses; an overdue task stops being overdue when it
\* moves to DONE.
C24_IsOverdue ==
    /\ [](\A i \in Stored :
            /\ is_overdue(_tasks[i], now) <=> Overdue(i)
            /\ (_tasks[i].status = DONE \/ _tasks[i].due_date = None) =>
                  ~is_overdue(_tasks[i], now)
            /\ (_tasks[i].status # DONE /\ _tasks[i].due_date # None
                  /\ _tasks[i].due_date[1] < now) => is_overdue(_tasks[i], now))
    /\ [](last.op = "is_overdue" =>
            /\ last.ret = "value"
            /\ last.value = TRUE => \E i \in Stored : Overdue(i)
            /\ last.value = FALSE => \E i \in Stored : ~Overdue(i))
    /\ [][\A i \in Stored :
            (is_overdue(_tasks[i], now) /\ i \in DOMAIN _tasks'
                /\ _tasks'[i].status = DONE) => ~is_overdue(_tasks'[i], now')]_vars

\* task 1 was IN_REVIEW and past its due date at instant 1, and then moved
\* to DONE
C24_Witness ==
    /\ last.op = "transition_task" /\ last.ret = "task" /\ last.value = 1
    /\ Stored = {1}
    /\ now = 1
    /\ _tasks[1].due_date = Some(0)
    /\ _tasks[1].status = DONE /\ _tasks[1].completed_at = Some(1)
    /\ ~is_overdue(_tasks[1], now)

----------------------------------------------------------------------------
(* The properties of calculate_progress *)

\* C25: calculate_progress returns 100 for every DONE task and 0 for every
\* TODO task, whatever estimated_hours and actual_hours are: unset, zero, or
\* any value, actual_hours above estimated_hours included.
C25_ProgressDoneTodo ==
    /\ \A i \in Stored :
          /\ _tasks[i].status = DONE => calculate_progress(_tasks[i]) = Returns(<<100, 1>>)
          /\ _tasks[i].status = TODO => calculate_progress(_tasks[i]) = Returns(<<0, 1>>)
    /\ (last.op = "calculate_progress" /\ _tasks[1].status = DONE) =>
          last.ret = "value" /\ last.value = <<100, 1>>
    /\ (last.op = "calculate_progress" /\ _tasks[1].status = TODO) =>
          last.ret = "value" /\ last.value = <<0, 1>>

C25_Witness ==
    /\ last.op = "calculate_progress" /\ last.value = <<100, 1>>
    /\ _tasks[1].status = DONE
    /\ _tasks[1].estimated_hours = Some(0) /\ _tasks[1].actual_hours = Some(20)

\* C26: for a task that is neither DONE nor TODO and has estimated_hours
\* and actual_hours both set, calculate_progress is
\* min(99, actual_hours / estimated_hours * 100); when one of them is unset
\* it is 25 for IN_PROGRESS, 75 for IN_REVIEW, 50 for BLOCKED and 0 for
\* CANCELLED; the result is 100 only if the status is DONE.
C26_ProgressByHours ==
    \A i \in Stored :
        LET task == _tasks[i]
            r == calculate_progress(task)
        IN  /\ (task.status \notin {DONE, TODO}
                  /\ task.estimated_hours # None /\ task.actual_hours # None) =>
                  /\ ~r.raised
                  /\ task.estimated_hours[1] # 0 =>
                        r.value = FracMin(<<99, 1>>, Frac(100 * task.actual_hours[1],
                                                          task.estimated_hours[1]))
            /\ (task.status \notin {DONE, TODO}
                  /\ (task.estimated_hours = None \/ task.actual_hours = None)) =>
                  r = Returns(<<CASE task.status = IN_PROGRESS -> 25
                                  [] task.status = IN_REVIEW -> 75
                                  [] task.status = BLOCKED -> 50
                                  [] task.status = CANCELLED -> 0, 1>>)
            /\ (~r.raised /\ r.value = <<100, 1>>) => task.status = DONE

\* C27: calculate_progress returns a percentage between 0 and 100, without
\* raising, for every task in every status whose estimated_hours and
\* actual_hours are each unset or not negative, zero included.
C27_ProgressInRange ==
    \A i \in Stored :
        LET r == calculate_progress(_tasks[i])
        IN  /\ ~r.raised
            /\ ~FracLess(r.value, <<0, 1>>)
            /\ ~FracLess(<<100, 1>>, r.value)

----------------------------------------------------------------------------
(* The properties of tags and subtasks *)

\* the normalized form of each tag the callers write: trimmed and lower-cased
Normalized(g) ==
    CASE g = <<"X">> -> <<"x">>
      [] g = <<" ", "x", " ">> -> <<"x">>
      [] g = <<"y">> -> <<"y">>
      [] g = <<" ">> -> <<>>
      [] g = <<>> -> <<>>

\* how often x occurs in the list l
Occurrences(l, x) == Cardinality({k \in 1..Len(l) : l[k] = x})

\* C28: after any sequence of add_tag, remove_tag, add_subtask and
\* remove_subtask on a task created with empty tags and subtask_ids, tags
\* holds no duplicate, no empty string and only trimmed lower-case entries,
\* and subtask_ids holds no duplicate; after add_tag the normalized tag is
\* there exactly once, however often it is added, and after remove_tag the
\* normalized tag is absent, in whatever form it was added.
C28_TagsAreASet ==
    /\ [](\A i \in Stored :
            /\ Distinct(_tasks[i].tags)
            /\ Distinct(_tasks[i].subtask_ids)
            /\ \A g \in Range(_tasks[i].tags) :
                  /\ g # <<>>
                  /\ g[1] # " " /\ g[Len(g)] # " "
                  /\ \A k \in 1..Len(g) : g[k] \notin {"X", "Y"})
    /\ [][\A i \in Stored, g \in TagArgs :
            /\ (last'.op = "add_tag" /\ Task_add_tag(i, g) /\ Normalized(g) # <<>>) =>
                  Occurrences(_tasks'[i].tags, Normalized(g)) = 1
            /\ (last'.op = "remove_tag" /\ Task_remove_tag(i, g)) =>
                  Occurrences(_tasks'[i].tags, Normalized(g)) = 0]_vars

\* two calls on the one task: a tag was added, and remove_tag has left no tag
C28_Witness ==
    /\ last.op = "remove_tag"
    /\ Stored = {1}
    /\ edits = 2
    /\ _tasks[1].updated_at # None
    /\ _tasks[1].tags = <<>> /\ _tasks[1].subtask_ids = <<>>

\* the step leaves every task as it is, or changes one list of task i and
\* stamps its updated_at
Untouched == _tasks' = _tasks
OnlyTags(i, tags) ==
    _tasks' = [_tasks EXCEPT ![i] = [@ EXCEPT !.tags = tags, !.updated_at = Some(now)]]
OnlySubtasks(i, subtask_ids) ==
    _tasks' = [_tasks EXCEPT ![i] = [@ EXCEPT !.subtask_ids = subtask_ids,
                                              !.updated_at = Some(now)]]

\* C29: add_tag, remove_tag, add_subtask and remove_subtask stamp updated_at
\* only when the list changes: adding a tag or subtask id that is there,
\* adding a tag that is empty after normalization, or removing one that is
\* absent leaves the whole task unchanged, updated_at included; and none of
\* the four changes status, completed_at, assignee_id or id.
C29_StampOnChange ==
    [][\A i \in Stored :
          /\ \A g \in Tags :
                /\ (last'.op = "add_tag" /\ Task_add_tag(i, g)) =>
                      IF Normalized(g) = <<>> \/ Normalized(g) \in Range(_tasks[i].tags)
                      THEN Untouched
                      ELSE OnlyTags(i, Append(_tasks[i].tags, Normalized(g)))
                /\ (last'.op = "remove_tag" /\ Task_remove_tag(i, g)) =>
                      IF Normalized(g) \notin Range(_tasks[i].tags)
                      THEN Untouched
                      ELSE /\ OnlyTags(i, _tasks'[i].tags)
                           /\ Range(_tasks'[i].tags)
                                 = Range(_tasks[i].tags) \ {Normalized(g)}
          /\ \A j \in TaskIds :
                /\ (last'.op = "add_subtask" /\ Task_add_subtask(i, j)) =>
                      IF j \in Range(_tasks[i].subtask_ids)
                      THEN Untouched
                      ELSE OnlySubtasks(i, Append(_tasks[i].subtask_ids, j))
                /\ (last'.op = "remove_subtask" /\ Task_remove_subtask(i, j)) =>
                      IF j \notin Range(_tasks[i].subtask_ids)
                      THEN Untouched
                      ELSE /\ OnlySubtasks(i, _tasks'[i].subtask_ids)
                           /\ Range(_tasks'[i].subtask_ids)
                                 = Range(_tasks[i].subtask_ids) \ {j}
          /\ (/\ last'.op \in {"add_tag", "remove_tag", "add_subtask", "remove_subtask"}
              /\ \/ \E g \in Tags : Task_add_tag(i, g) \/ Task_remove_tag(i, g)
                 \/ \E j \in TaskIds : Task_add_subtask(i, j) \/ Task_remove_subtask(i, j)) =>
                /\ _tasks'[i].status = _tasks[i].status
                /\ _tasks'[i].completed_at = _tasks[i].completed_at
                /\ _tasks'[i].assignee_id = _tasks[i].assignee_id
                /\ _tasks'[i].id = _tasks[i].id]_vars

\* the one edit of the task, which is DONE, was remove_subtask, and there was
\* no subtask to remove
C29_Witness ==
    /\ last.op = "remove_subtask"
    /\ Stored = {1}
    /\ edits = 1
    /\ _tasks[1].status = DONE
    /\ _tasks[1].subtask_ids = <<>>
    /\ _tasks[1].updated_at = _tasks[1].completed_at

----------------------------------------------------------------------------
(* Failures of the directory's operations                                  *)

DirectoryOps ==
    {"create_task", "get_task", "list_tasks", "update_task", "delete_task",
     "assign_task", "unassign_task", "transition_task", "bulk_assign",
     "bulk_transition", "get_overdue_tasks", "get_blocked_tasks",
     "get_tasks_by_tag", "get_task_stats", "calculate_velocity",
     "get_workload_distribution", "auto_assign_task"}

\* C30: in every reachable state and for every argument, a call of an
\* operation of the directory that ends in a raised failure is a call of
\* transition_task, on a task that exists, with a target that is not a legal
\* successor of the task's status.
C30_OnlyTransitionRaises ==
    [][(last'.op \in DirectoryOps /\ last'.ret = "raised") =>
          /\ last'.op = "transition_task"
          /\ \E i \in Stored, s \in TaskStatus :
                /\ <<_tasks[i].status, s>> \notin LegalEdges
                /\ transition_task(i, s)]_vars

----------------------------------------------------------------------------
(* Calls that miss                                                         *)

\* the ids of the list l that are stored, in the order of l
StoredOf(l) ==
    LET stored(i) == i \in Stored
    IN  SelectSeq(l, stored)

\* the step leaves the stored tasks and the id counter as they are
DirectoryUnchanged == _tasks' = _tasks /\ _next_id' = _next_id

\* C31: update_task, assign_task, unassign_task, transition_task and
\* auto_assign_task on an id that is not stored return None, delete_task
\* returns False, bulk_assign and bulk_transition map the id to False, and
\* auto_assign_task with an empty list returns None also for a stored id; in
\* each case the stored tasks and the id counter are as before (a bulk call
\* changes what the same call on the stored ids of its list alone changes).
C31_MissChangesNothing ==
    [][/\ \A i \in TaskIds \ Stored :
             /\ \A kw \in Kwargs :
                   (last'.op = "update_task" /\ update_task(i, kw)) =>
                       (last'.ret = "none" /\ DirectoryUnchanged)
             /\ \A a \in UserIds :
                   (last'.op = "assign_task" /\ assign_task(i, a)) =>
                       (last'.ret = "none" /\ DirectoryUnchanged)
             /\ (last'.op = "unassign_task" /\ unassign_task(i)) =>
                   (last'.ret = "none" /\ DirectoryUnchanged)
             /\ \A s \in TaskStatus :
                   (last'.op = "transition_task" /\ transition_task(i, s)) =>
                       (last'.ret = "none" /\ DirectoryUnchanged)
             /\ \A l \in TeamLists :
                   (last'.op = "auto_assign_task" /\ auto_assign_task(i, l)) =>
                       (last'.ret = "none" /\ DirectoryUnchanged)
             /\ (last'.op = "delete_task" /\ delete_task(i)) =>
                   (last'.ret = "false" /\ DirectoryUnchanged)
       /\ \A i \in Stored :
             (last'.op = "auto_assign_task" /\ auto_assign_task(i, <<>>)) =>
                 (last'.ret = "none" /\ DirectoryUnchanged)
       /\ \A l \in IdLists :
             /\ \A a \in UserIds :
                   (last'.op = "bulk_assign" /\ bulk_assign(l, a)) =>
                       /\ last'.ret = "dict"
                       /\ \A i \in Range(l) \ Stored : ~last'.value[i]
                       /\ _next_id' = _next_id
                       /\ DOMAIN _tasks' = DOMAIN _tasks
                       /\ _tasks' = bulk_assign_loop(_tasks, <<>>, StoredOf(l), a, now).tasks
                       /\ StoredOf(l) = <<>> => _tasks' = _tasks
             /\ \A s \in TaskStatus :
                   (last'.op = "bulk_transition" /\ bulk_transition(l, s)) =>
                       /\ last'.ret = "dict"
                       /\ \A i \in Range(l) \ Stored : ~last'.value[i]
                       /\ _next_id' = _next_id
                       /\ DOMAIN _tasks' = DOMAIN _tasks
                       /\ _tasks' = bulk_transition_loop(_tasks, <<>>, StoredOf(l), s, now).tasks
                       /\ StoredOf(l) = <<>> => _tasks' = _tasks]_vars

\* every id is stored, so the auto_assign_task that has returned None was
\* given an empty list; task 1 was created with an assignee and is unedited
C31_Witness ==
    /\ last.op = "auto_assign_task" /\ last.ret = "none"
    /\ Stored = {1, 2}
    /\ edits = 0
    /\ _tasks[1].assignee_id = Some(1)
    /\ _tasks[1].updated_at = None

----------------------------------------------------------------------------
(* The rate limit                                                          *)

\* the number of admitted requests of client c in the minute that ends at
\* instant t, its start excluded
AdmittedInMinuteTo(c, t) ==
    Cardinality({k \in DOMAIN admitted[c] :
                    admitted[c][k] > t - Minute /\ admitted[c][k] <= t})

\* every instant of the list l also occurs in the list m, as often at least
Within(l, m) ==
    \A x \in Range(l) : Occurrences(l, x) <= Occurrences(m, x)

\* C32: for every client, the number of requests admitted (is_rate_limited
\* returned False) within any minute never exceeds requests_per_minute; the
\* answer to a client depends on that client's admitted requests alone and a
\* call leaves the other clients' records as they are; a rejected call
\* records nothing; and a client whose oldest recorded request is more than a
\* minute old is admitted.
C32_RateLimit ==
    /\ [](\A c \in Clients, t \in 0..now :
             AdmittedInMinuteTo(c, t) <= requests_per_minute)
    /\ [][\A c \in Clients :
             (last'.op = "is_rate_limited" /\ is_rate_limited(c)) =>
                 /\ last'.value = (AdmittedInMinuteTo(c, now) >= requests_per_minute)
                 /\ \A d \in Clients \ {c} :
                       /\ _request_counts'[d] = _request_counts[d]
                       /\ admitted'[d] = admitted[d]
                 /\ last'.value =>
                       /\ admitted' = admitted
                       /\ Within(_request_counts'[c], _request_counts[c])
                       /\ get_remaining_requests(_request_counts', requests_per_minute, c, now)
                             = get_remaining_requests(_request_counts, requests_per_minute, c, now)
                 /\ ~last'.value =>
                       /\ admitted'[c] = Append(admitted[c], now)
                       /\ Occurrences(_request_counts'[c], now)
                             = Occurrences(_request_counts[c], now) + 1
                 /\ (/\ _request_counts[c] # <<>>
                     /\ _request_counts[c][1] < now - Minute) => ~last'.value]_vars

\* under a limit of 1, client a was admitted at instant 0 and is admitted
\* again at instant 3, when that request is more than a minute old, while
\* client b was admitted at instant 1
C32_Witness ==
    /\ last.op = "is_rate_limited" /\ last.value = FALSE
    /\ requests_per_minute = 1
    /\ now = 3
    /\ admitted["a"] = <<0, 3>>
    /\ admitted["b"] = <<1>>
    /\ _request_counts["a"] = <<3>>
    /\ _request_counts["b"] = <<1>>

----------------------------------------------------------------------------
(* The users' emails                                                       *)

\* C33: in every state reached by create_user, update_user, delete_user,
\* activate_user, suspend_user and bulk_deactivate no two stored users have
\* the same email, and create_user with the email of a stored user raises
\* and leaves the users and the id counter as they are.
C33_UniqueEmails ==
    /\ [](\A i, j \in DOMAIN _users : _users[i].email = _users[j].email => i = j)
    /\ [][\A e \in Emails :
             (/\ last'.op = "create_user"
              /\ \E i \in DOMAIN _users : _users[i].email = e
              /\ create_user(e, "U", DEVELOPER)) =>
                 /\ last'.ret = "raised"
                 /\ _users' = _users
                 /\ _next_user_id' = _next_user_id]_vars

----------------------------------------------------------------------------
(* The way to DONE                                                         *)

\* task i is stored with status s
InStatus(i, s) == i \in Stored /\ _tasks[i].status = s

\* C34: in any step in which a task's status becomes DONE it was IN_REVIEW
\* just before; a transition to DONE from TODO, IN_PROGRESS or BLOCKED is
\* refused, by transition_task with an error and by bulk_transition with
\* False, and leaves the task as it is; so a task is DONE only after it was
\* IN_REVIEW, and IN_REVIEW only after it was IN_PROGRESS (a behaviour in
\* which it never was, never shows it so).
C34_DoneOnlyFromReview ==
    /\ [][\A i \in Kept :
             (_tasks'[i].status = DONE /\ _tasks[i].status # DONE) =>
                 _tasks[i].status = IN_REVIEW]_vars
    /\ [][\A i \in Stored :
             _tasks[i].status \in {TODO, IN_PROGRESS, BLOCKED} =>
                 /\ (last'.op = "transition_task" /\ transition_task(i, DONE)) =>
                       (last'.ret = "raised" /\ _tasks' = _tasks)
                 /\ \A l \in IdLists :
                       (/\ last'.op = "bulk_transition"
                        /\ i \in Range(l)
                        /\ bulk_transition(l, DONE)) =>
                           /\ last'.ret = "dict"
                           /\ last'.value[i] = FALSE
                           /\ _tasks'[i] = _tasks[i]]_vars
    /\ \A i \in TaskIds :
          /\ ([]~InStatus(i, IN_REVIEW)) => []~InStatus(i, DONE)
          /\ ([]~InStatus(i, IN_PROGRESS)) => []~InStatus(i, IN_REVIEW)

\* task 1 has gone all the way to DONE, and the request to move task 2 from
\* IN_PROGRESS to DONE has just been refused with an error
C34_Witness ==
    /\ last.op = "transition_task" /\ last.ret = "raised"
    /\ Stored = {1, 2}
    /\ _tasks[1].status = DONE
    /\ _tasks[2].status = IN_PROGRESS

\* the statuses a task of status s can be given next
Successors(s) == {n \in TaskStatus : can_transition_to([status |-> s], n)}

\* the statuses reached from those of S by at most n legal transitions
RECURSIVE ReachedWithin(_, _)
ReachedWithin(S, n) ==
    IF n = 0 THEN S
    ELSE ReachedWithin(S \cup UNION {Successors(s) : s \in S}, n - 1)

ReachableFrom(s) == ReachedWithin({s}, Cardinality(TaskStatus))

\* C35: a task whose status is TODO, IN_PROGRESS, IN_REVIEW or BLOCKED has a
\* legal successor, transition_task can give it each of its legal successors,
\* and from its status a sequence of legal transitions leads to DONE and
\* another one to CANCELLED.
C35_NeverStuck ==
    \A i \in Stored :
        _tasks[i].status \notin {DONE, CANCELLED} =>
            /\ Successors(_tasks[i].status) # {}
            /\ \A n \in Successors(_tasks[i].status) :
                  ENABLED (transition_task(i, n) /\ _tasks'[i].status = n)
            /\ DONE \in ReachableFrom(_tasks[i].status)
            /\ CANCELLED \in ReachableFrom(_tasks[i].status)

\* a blocked task, next to one in review
C35_Witness ==
    /\ Stored = {1, 2}
    /\ _tasks[1].status = BLOCKED
    /\ _tasks[2].status = IN_REVIEW

----------------------------------------------------------------------------
(* Queries                                                                 *)

TaskQueries ==
    {"can_transition_to", "is_overdue", "is_blocked", "is_completed",
     "calculate_progress", "estimate_completion_date"}
DirectoryQueries ==
    {"get_task", "list_tasks", "get_overdue_tasks", "get_blocked_tasks",
     "get_tasks_by_tag", "get_task_stats", "calculate_velocity",
     "get_workload_distribution"}

\* C36: a call of one of the queries of a task or of the directory, however
\* it ends, leaves every stored task, updated_at included, the set of stored
\* ids and the id counter as they are.
C36_QueriesChangeNothing ==
    [][last'.op \in TaskQueries \cup DirectoryQueries =>
          /\ DOMAIN _tasks' = DOMAIN _tasks
          /\ \A i \in Stored : _tasks'[i] = _tasks[i]
          /\ _next_id' = _next_id]_vars

\* get_overdue_tasks has returned the overdue task 1, which was never stamped
\* by that or an earlier query: its updated_at is that of the one update
C36_Witness ==
    /\ last.op = "get_overdue_tasks" /\ last.value = <<1>>
    /\ now = 1
    /\ Stored = {1, 2}
    /\ _tasks[1].updated_at = Some(0)
    /\ _tasks[2].updated_at = None

----------------------------------------------------------------------------
(* The result of bulk_transition                                           *)

\* C37: for every list of ids passed to bulk_transition, lists that name an
\* id more than once included, the result maps an id to True exactly when
\* this call has changed that task's status to the target.
C37_BulkTransitionReport ==
    [][\A l \in IdLists, s \in TaskStatus :
          (last'.op = "bulk_transition" /\ bulk_transition(l, s)) =>
              /\ last'.ret = "dict"
              /\ \A i \in Range(l) :
                    last'.value[i] <=>
                        /\ i \in Stored
                        /\ _tasks[i].status # s
                        /\ _tasks'[i].status = s]_vars

----------------------------------------------------------------------------
(* The searches                                                            *)

\* the list l names exactly the tasks of the set S, each once
Exactly(l, S) == Range(l) = S /\ Distinct(l)

\* C38: get_overdue_tasks, get_blocked_tasks and get_tasks_by_tag(q) return
\* exactly the stored tasks that are overdue, that are blocked, and that have
\* the normalized q among their tags, each once; the first two are as many
\* as get_task_stats() counts as overdue and as blocked; and a task is found
\* by every variant, in upper or lower case or padded, of a tag just added
\* to it with add_tag.
C38_Searches ==
    /\ [](/\ Exactly(get_overdue_tasks(_tasks, now), {i \in Stored : Overdue(i)})
          /\ Exactly(get_blocked_tasks(_tasks),
                     {i \in Stored : _tasks[i].status = BLOCKED})
          /\ \A q \in TagArgs :
                Exactly(get_tasks_by_tag(_tasks, q),
                        {i \in Stored : Normalized(q) \in Range(_tasks[i].tags)})
          /\ Len(get_overdue_tasks(_tasks, now))
                = get_task_stats(_tasks, None, now)["overdue"]
          /\ Len(get_blocked_tasks(_tasks))
                = get_task_stats(_tasks, None, now)[BLOCKED])
    /\ [][\A i \in Stored, g \in Tags :
             (last'.op = "add_tag" /\ Normalized(g) # <<>> /\ Task_add_tag(i, g)) =>
                 \A q \in TagArgs :
                     Normalized(q) = Normalized(g) =>
                         i \in Range(get_tasks_by_tag(_tasks', q))]_vars

\* get_tasks_by_tag has found task 2, tagged x, while task 1 is overdue and
\* blocked
C38_Witness ==
    /\ last.op = "get_tasks_by_tag" /\ last.value = <<2>>
    /\ Stored = {1, 2}
    /\ now = 1
    /\ _tasks[2].tags = << <<"x">> >>
    /\ get_overdue_tasks(_tasks, now) = <<1>>
    /\ get_blocked_tasks(_tasks) = <<1>>

----------------------------------------------------------------------------
(* The methods of User, called on the users of the service                 *)

Activate ==
    \E i \in DOMAIN _users :
        LET r == User_activate(_users[i], now)
        IN  /\ _users' = [_users EXCEPT ![i] = r.user]
            /\ last' = Call("activate", IF r.raised THEN "raised" ELSE "none", i)
            /\ UNCHANGED _next_user_id
            /\ UserFrame

Deactivate ==
    \E i \in DOMAIN _users :
        /\ _users' = [_users EXCEPT ![i] = User_deactivate(@, now)]
        /\ last' = Call("deactivate", "none", i)
        /\ UNCHANGED _next_user_id
        /\ UserFrame

Suspend ==
    \E i \in DOMAIN _users :
        /\ _users' = [_users EXCEPT ![i] = User_suspend(@, now)]
        /\ last' = Call("suspend", "none", i)
        /\ UNCHANGED _next_user_id
        /\ UserFrame

\* Users are created, and activated, deactivated and suspended by their own
\* methods as time passes
NextUserStatus ==
    \/ CreateUser \/ Activate \/ Deactivate \/ Suspend \/ Tick

SpecUserStatus == Init /\ [][NextUserStatus]_vars

----------------------------------------------------------------------------
(* The balance of auto-assignment                                          *)

\* the number of stored tasks assigned to user u
AssignedTo(u) == Cardinality({i \in Stored : _tasks[i].assignee_id = Some(u)})

\* the numbers of tasks of any two candidates of the list l differ by at
\* most 1, and every assigned task is assigned to a candidate of l
Balanced(l) ==
    /\ \A a, b \in Range(l) : AssignedTo(a) - AssignedTo(b) <= 1
    /\ \A i \in Stored : _tasks[i].assignee_id # None =>
                            _tasks[i].assignee_id[1] \in Range(l)

\* C39: when every task is created unassigned and then auto-assigned with the
\* same list l of distinct candidates, and no task is transitioned,
\* reassigned or deleted, the numbers of tasks of any two candidates differ
\* by at most 1 after every step: they do in the empty directory and after a
\* create_task, and an auto-assignment with l of an unassigned task in a
\* state balanced for l leaves a state balanced for l.
C39_Balance ==
    /\ \A l \in CandidateLists : Stored = {} => Balanced(l)
    /\ [][\A l \in CandidateLists :
             /\ (last'.op = "create_task" /\ Balanced(l)) => Balanced(l)'
             /\ \A i \in Stored :
                   (/\ last'.op = "auto_assign_task"
                    /\ _tasks[i].assignee_id = None
                    /\ Balanced(l)
                    /\ auto_assign_task(i, l)) => Balanced(l)']_vars

----------------------------------------------------------------------------
(* Suspended users                                                         *)

\* the users that one call of activate, deactivate or suspend leaves
AfterMethod(user, t) ==
    {User_activate(user, t).user, User_deactivate(user, t), User_suspend(user, t)}

\* the users that at most n calls of the methods leave
RECURSIVE AfterMethods(_, _, _)
AfterMethods(user, t, n) ==
    IF n = 0 THEN {user}
    ELSE LET S == AfterMethods(user, t, n - 1)
         IN  S \cup UNION {AfterMethod(u, t) : u \in S}

\* the statuses that sequences of the methods bring the user to: no shortest
\* sequence visits a status twice
StatusesAfter(user, t) ==
    {u.status : u \in AfterMethods(user, t, Cardinality(UserStatus))}

\* C40: activate() of a SUSPENDED user raises and leaves status and
\* updated_at as they were, and no sequence of activate, deactivate and
\* suspend brings a SUSPENDED user to ACTIVE.
C40_SuspendedStays ==
    /\ [][\A i \in DOMAIN _users :
             (/\ last'.op = "activate"
              /\ last'.value = i
              /\ _users[i].status = SUSPENDED)
             => /\ last'.ret = "raised"
                /\ _users'[i].status = SUSPENDED
                /\ _users'[i].updated_at = _users[i].updated_at]_vars
    /\ [](\A i \in DOMAIN _users :
             _users[i].status = SUSPENDED
             => ACTIVE \notin StatusesAfter(_users[i], now))

====
